---- MODULE Spec2Model ----
(***************************************************************************)
(* A model of sqlalchemy-graphql-schemagen: the generation of a GraphQL    *)
(* query/mutation schema from SQLAlchemy model classes, the resolvers it   *)
(* wires (list, create, update, delete) and the pre/post hook wrapper.     *)
(*                                                                         *)
(* The repository holds two revisions of the library: package `fbsak`      *)
(* (rev = "fbsak") and package `sqlalchemy_graphql_schemagen`              *)
(* (rev = "sgs").  Operators that differ between them take rev.            *)
(***************************************************************************)
EXTENDS Integers, Sequences, FiniteSets, TLC

(***************************************************************************)
(* Bounds of the model.                                                    *)
(***************************************************************************)
MaxRows  == 2    \* rows a table holds at most
MaxId    == 2    \* largest identifier the store assigns or a caller names
MaxCalls == 2    \* resolver invocations in one behaviour
MaxRuns  == 2    \* schema-generation runs in one behaviour
MaxPage  == 3    \* largest page number a caller asks for
MaxProcs == 2    \* resolver invocations the transport runs at once

Revisions == {"fbsak", "sgs"}

(***************************************************************************)
(* Python / SQL values, tagged so that values of different types compare.  *)
(***************************************************************************)
None   == <<"none">>
I(n)   == <<"int", n>>
S(s)   == <<"str", s>>
B(b)   == <<"bool", b>>
L(seq) == <<"list", seq>>
Obj(x) == <<"obj", x>>

Max(a, b) == IF a >= b THEN a ELSE b

\* Python truthiness (bool(x)): None, 0, False, '' and empty containers are false.
Truthy(v) ==
    CASE v[1] = "none" -> FALSE
      [] v[1] = "int"  -> v[2] # 0
      [] v[1] = "bool" -> v[2]
      [] v[1] = "str"  -> v[2] # ""
      [] v[1] = "list" -> Len(v[2]) > 0
      [] OTHER         -> TRUE

\* int(x): an int is kept, a decimal string is parsed, anything else raises.
IntOfStr(s) ==
    CASE s = "0" -> I(0)
      [] s = "1" -> I(1)
      [] s = "2" -> I(2)
      [] s = "3" -> I(3)
      [] s = "4" -> I(4)
      [] OTHER   -> None
\* str(n) for the identifiers of the model.
StrOfInt(n) ==
    CASE n = 0 -> "0"
      [] n = 1 -> "1"
      [] n = 2 -> "2"
      [] n = 3 -> "3"
      [] n = 4 -> "4"
      [] OTHER -> "?"
IntOf(v) ==
    CASE v[1] = "int" -> v
      [] v[1] = "str" -> IntOfStr(v[2])
      [] OTHER        -> None

\* str.lower() on the class names of the model.
Lower(s) ==
    CASE s = "User" -> "user"
      [] s = "Pair" -> "pair"
      [] s = "Link" -> "link"
      [] s = "Tag"  -> "tag"
      [] OTHER      -> s

RECURSIVE SeqToSet(_)
SeqToSet(s) == IF s = <<>> THEN {} ELSE {Head(s)} \cup SeqToSet(Tail(s))

(***************************************************************************)
(* Column and entity descriptors, as the SQLAlchemy mapper gives them.     *)
(* default is None, <<"scalar", v>> or <<"callable">> (ColumnDefault).     *)
(***************************************************************************)
NoDefault        == None
ScalarDefault(v) == <<"scalar", v>>
CallableDefault  == <<"callable">>

Column(n, t, nullable, default, pk, doc) ==
    [name |-> n, type |-> t, nullable |-> nullable, default |-> default,
     primary_key |-> pk, doc |-> doc]

Entity(n, tbl, doc, cols) ==
    [name |-> n, tablename |-> tbl, doc |-> doc, columns |-> cols]

\* User{id PK, name not null, age nullable default 18}
User ==
    Entity("User", "users", "",
           << Column("id", "Integer", FALSE, NoDefault, TRUE, ""),
              Column("name", "String", FALSE, NoDefault, FALSE, "the name"),
              Column("age", "Integer", TRUE, ScalarDefault(I(18)), FALSE, "") >>)

\* An entity with a two-column primary key and one owned column.
Pair ==
    Entity("Pair", "pairs", "a keyed pair",
           << Column("a", "Integer", FALSE, NoDefault, TRUE, ""),
              Column("b", "Integer", FALSE, NoDefault, TRUE, ""),
              Column("qty", "Integer", TRUE, NoDefault, FALSE, "") >>)

\* A many-to-many association class: every column is a primary-key column.
Link ==
    Entity("Link", "links", "",
           << Column("user_id", "Integer", FALSE, NoDefault, TRUE, ""),
              Column("tag_id", "Integer", FALSE, NoDefault, TRUE, "") >>)

ColumnNames(e) == [i \in 1..Len(e.columns) |-> e.columns[i].name]
ColumnByName(e, n) == CHOOSE c \in SeqToSet(e.columns) : c.name = n
HasColumn(e, n) == \E c \in SeqToSet(e.columns) : c.name = n

\* inspect(sa_model_class).primary_key: the primary-key columns, in order.
PrimaryKey(e) == SelectSeq(e.columns, LAMBDA c : c.primary_key)
PkNames(e) == [i \in 1..Len(PrimaryKey(e)) |-> PrimaryKey(e)[i].name]

get_columns_from_sa_model_class(e) == e.columns

is_association_table_never(e) == FALSE
\* list(mci.columns.values()) == list(mci.primary_key)
is_association_table(e) == e.columns = PrimaryKey(e)

(***************************************************************************)
(* Type Mapper.                                                            *)
(***************************************************************************)
\* graphene_sqlalchemy's convert_sqlalchemy_type registry: the scalar a native
\* column type converts to; an integer primary key converts to ID.  A native
\* type with no registered converter makes the conversion raise.
Unsupported == "Unsupported"
convert_sqlalchemy_type(column) ==
    CASE column.type = "Integer" -> IF column.primary_key THEN "ID" ELSE "Int"
      [] column.type = "String"  -> "String"
      [] column.type = "Float"   -> "Float"
      [] column.type = "Boolean" -> "Boolean"
      [] OTHER                   -> Unsupported

NoMask == [k \in {} |-> ""]
mask_ID_to_Int == ("ID" :> "Int")

\* mask.get(original, original) when a mask is given, else the original type.
get_graphql_field_type_for_sa_column(column, mask) ==
    LET original_graphql_type == convert_sqlalchemy_type(column)
    IN  IF mask # NoMask
        THEN IF original_graphql_type \in DOMAIN mask
             THEN mask[original_graphql_type]
             ELSE original_graphql_type
        ELSE original_graphql_type

(***************************************************************************)
(* Schema Fragment Builders.  A python dict is a function on its keys;     *)
(* d[k] = v is (k :> v) @@ d.                                              *)
(***************************************************************************)
EmptyDict == [k \in {} |-> None]
SetItem(d, k, v) == (k :> v) @@ d

\* A graphene field: its type and the keyword arguments it was built with.
Field(t, args) == [type |-> t, args |-> args]
\* graphene fields are optional unless built with required=True.
FieldRequired(f) == "required" \in DOMAIN f.args /\ f.args["required"]
FieldHasDefault(f) == "default_value" \in DOMAIN f.args

WithDescription(field_args, column) ==
    IF column.doc # "" THEN SetItem(field_args, "description", column.doc)
    ELSE field_args

NormalColumnArgsKeepRequired(field_args, column) ==
    LET a1 == IF ~column.nullable THEN SetItem(field_args, "required", TRUE)
              ELSE field_args
    IN  IF column.default # NoDefault /\ column.default[1] = "scalar"
        THEN SetItem(a1, "default_value", column.default[2])
        ELSE a1
\* The required / default_value arguments of a column that is no primary key.
NormalColumnArgs(field_args, column) ==
    LET a1 == IF ~column.nullable THEN SetItem(field_args, "required", TRUE)
              ELSE field_args
        a2 == IF column.default # NoDefault
              THEN LET a3 == SetItem(a1, "required", FALSE)
                   IN  IF column.default[1] = "scalar"
                       THEN SetItem(a3, "default_value", column.default[2])
                       ELSE a3
              ELSE a1
    IN  a2

\* sgs: create_input_field_args.  A primary key is made optional.
create_input_field_args(sa_column) ==
    LET a0 == WithDescription(EmptyDict, sa_column)
    IN  IF sa_column.primary_key
        THEN SetItem(a0, "required", FALSE)
        ELSE NormalColumnArgs(a0, sa_column)

\* fbsak: the body of the loop of create_gql_create_input_object_type_from_sa_class
\* for a column that is no primary key.
fbsak_create_field_args(sa_column) ==
    WithDescription(NormalColumnArgs(EmptyDict, sa_column), sa_column)

\* The columns that get a field in the create input.
CreateInputColumns(rev, e) ==
    IF rev = "fbsak"
    THEN SelectSeq(get_columns_from_sa_model_class(e), LAMBDA c : ~c.primary_key)
    ELSE get_columns_from_sa_model_class(e)

FieldsOf(cols, typeOf(_), argsOf(_)) ==
    [n \in {c.name : c \in SeqToSet(cols)} |->
        LET c == CHOOSE x \in SeqToSet(cols) : x.name = n
        IN  Field(typeOf(c), argsOf(c))]

InputType(n, fields) == [name |-> n, fields |-> fields]

create_gql_create_input_object_type_from_sa_class(rev, e) ==
    InputType(e.name \o "CreateInput",
              FieldsOf(CreateInputColumns(rev, e),
                       LAMBDA c : get_graphql_field_type_for_sa_column(c, NoMask),
                       LAMBDA c : IF rev = "fbsak" THEN fbsak_create_field_args(c)
                                  ELSE create_input_field_args(c)))

\* The update input: every column; a column of type ID is required.
update_field_args(sa_column) ==
    LET a0 == IF get_graphql_field_type_for_sa_column(sa_column, NoMask) = "ID"
              THEN SetItem(EmptyDict, "required", TRUE) ELSE EmptyDict
    IN  WithDescription(a0, sa_column)

create_gql_update_input_object_type_from_sa_class(e) ==
    InputType(e.name \o "UpdateInput",
              FieldsOf(get_columns_from_sa_model_class(e),
                       LAMBDA c : get_graphql_field_type_for_sa_column(c, NoMask),
                       update_field_args))

\* The delete arguments: sgs one required Int per primary-key column,
\* fbsak one for the first primary-key column only.
DeleteArgColumns(rev, e) ==
    IF rev = "fbsak" THEN <<PrimaryKey(e)[1]>> ELSE PrimaryKey(e)
create_gql_mutation_delete_arguments_class(rev, e) ==
    InputType("Arguments",
              FieldsOf(DeleteArgColumns(rev, e),
                       LAMBDA c : "Int",
                       LAMBDA c : SetItem(EmptyDict, "required", TRUE)))

\* f"{cls_name.lower()}_data"
ParamName(e) == Lower(e.name) \o "_data"


(***************************************************************************)
(* The store (one table of the external relational engine) and the session *)
(* contract the resolvers need from it.  A table is a sequence of rows, a  *)
(* row a function from column names to values.                             *)
(***************************************************************************)
RowPk(e, row) == [i \in 1..Len(PkNames(e)) |-> row[PkNames(e)[i]]]

\* The identifier an auto-incrementing integer primary key gets next.
RECURSIVE MaxOf(_, _)
MaxOf(rows, n) ==
    IF rows = <<>> THEN 0 ELSE Max(Head(rows)[n][2], MaxOf(Tail(rows), n))
NextId(rows, n) == MaxOf(rows, n) + 1

\* The value the engine stores in a column for a bound parameter: an integer
\* column takes an int or a decimal string, anything else is a data error.
Coerce(c, v) ==
    IF v = None THEN None
    ELSE IF c.type = "Integer" THEN IntOf(v) ELSE v
CoerceFails(c, v) == v # None /\ Coerce(c, v) = None

\* A flush that leaves a column with no value NULL whatever its default.
FlushValueNoDefault(e, rows, c, attrs) ==
    LET given == IF c.name \in DOMAIN attrs THEN attrs[c.name] ELSE None
    IN  IF given # None THEN given
        ELSE IF c.primary_key /\ Len(PrimaryKey(e)) = 1 /\ c.type = "Integer"
             THEN I(NextId(rows, c.name))
        ELSE None
\* The value flushed for column c of a new instance whose set attributes are
\* attrs: an unset or None attribute takes the column's scalar default, and a
\* lone integer primary key left unset is assigned by the store.
FlushValue(e, rows, c, attrs) ==
    LET given == IF c.name \in DOMAIN attrs THEN attrs[c.name] ELSE None
    IN  IF given # None THEN given
        ELSE IF c.default # NoDefault /\ c.default[1] = "scalar" THEN c.default[2]
        ELSE IF c.primary_key /\ Len(PrimaryKey(e)) = 1 /\ c.type = "Integer"
             THEN I(NextId(rows, c.name))
        ELSE None

NewRow(e, rows, attrs) ==
    [n \in SeqToSet(ColumnNames(e)) |->
        Coerce(ColumnByName(e, n), FlushValue(e, rows, ColumnByName(e, n), attrs))]

\* The constraint checks of the engine on a row about to be written next to
\* the rows `others`: NOT NULL columns and the primary key's uniqueness.
RowViolates(e, others, row) ==
    \/ \E c \in SeqToSet(e.columns) : ~c.nullable /\ row[c.name] = None
    \/ \E i \in 1..Len(others) : RowPk(e, others[i]) = RowPk(e, row)

InsertFails(e, rows, attrs) ==
    \/ \E c \in SeqToSet(e.columns) :
          CoerceFails(c, FlushValue(e, rows, c, attrs))
    \/ RowViolates(e, rows, NewRow(e, rows, attrs))

\* An update that passes over the keys whose value is null.
ChangedRowSkipNull(e, row, changes) ==
    [n \in DOMAIN row |->
        IF n \in DOMAIN changes /\ changes[n] # None
        THEN Coerce(ColumnByName(e, n), changes[n])
        ELSE row[n]]
\* setattr(obj, k, v) for every k of changes, then the flush of the instance.
ChangedRow(e, row, changes) ==
    [n \in DOMAIN row |->
        IF n \in DOMAIN changes THEN Coerce(ColumnByName(e, n), changes[n])
        ELSE row[n]]

RemoveAt(seq, i) == SubSeq(seq, 1, i - 1) \o SubSeq(seq, i + 1, Len(seq))
ReplaceAt(seq, i, x) == [seq EXCEPT ![i] = x]

UpdateFails(e, rows, i, changes) ==
    \/ \E n \in DOMAIN changes : CoerceFails(ColumnByName(e, n), changes[n])
    \/ RowViolates(e, RemoveAt(rows, i), ChangedRow(e, rows[i], changes))

\* What one execution of a resolver body did: the table it leaves committed,
\* what it returned or raised, and the session calls it made, in order.
NoQuery == [limit |-> 0, offset |-> 0, executed |-> FALSE, filters |-> <<>>]
Effect(rows, ret, exc, log, applied) ==
    [store |-> rows, ret |-> ret, exc |-> exc, log |-> log, applied |-> applied,
     query |-> NoQuery]
NoExc == "none"

\* sgs: scoped_db_session_from_sa_connection_string opens an engine, a
\* connection and a scoped session, and closes none of them on exit.
\* fbsak: the caller's get_session_func() hands out the session.
AcquireLog(rev) == <<"acquire">>
ReleaseLog(rev) == <<>>

\* A handler that closes the session and rolls nothing back.
FailureLogNoRollback(rev) == IF rev = "sgs" THEN <<"close">> ELSE <<>>
\* sgs: except DBAPIError: rollback, flush, close, raise GraphQLError.
\* fbsak: no handler, the data-access error propagates as it is.
FailureLog(rev) == IF rev = "sgs" THEN <<"rollback", "flush", "close">> ELSE <<>>
FailureExc(rev) == IF rev = "sgs" THEN "GraphQLError" ELSE "DBAPIError"


(***************************************************************************)
(* Resolver Factory: the bodies of the create, update and delete           *)
(* resolvers.  kwargs is the keyword-argument dict graphene passes; dbfail *)
(* says whether the engine fails the commit for a reason of its own (lost  *)
(* connection, lock timeout).                                              *)
(***************************************************************************)
CreateAppliedKeysNoPk(rev, e, create_data) ==
    DOMAIN create_data \ SeqToSet(PkNames(e))
\* The keys create's loop calls setattr for: every key of the payload.
CreateAppliedKeys(rev, e, create_data) == DOMAIN create_data

create_mutate_func(rev, e, rows, kwargs, dbfail) ==
    LET create_data == kwargs[ParamName(e)]
        applied == CreateAppliedKeys(rev, e, create_data)
        attrs   == [k \in applied |-> create_data[k]]
        tried   == AcquireLog(rev) \o <<"add", "commit">>
    IN  IF dbfail \/ InsertFails(e, rows, attrs)
        THEN Effect(rows, None, FailureExc(rev), tried \o FailureLog(rev), applied)
        ELSE Effect(Append(rows, NewRow(e, rows, attrs)),
                    Obj(NewRow(e, rows, attrs)), NoExc,
                    tried \o ReleaseLog(rev), applied)

\* The keys update's loop calls setattr for.  sgs skips the key equal to
\* pk_name, the name of the first primary-key column; fbsak skips nothing.
UpdateAppliedKeys(rev, e, update_data) ==
    IF rev = "sgs" THEN DOMAIN update_data \ {PkNames(e)[1]}
    ELSE DOMAIN update_data

\* Query.one() on the rows whose first primary-key column equals int(pk_id).
PkMatches(rows, pk_name, key) == {i \in 1..Len(rows) : rows[i][pk_name] = key}

update_mutate_func(rev, e, rows, kwargs, dbfail) ==
    LET update_data == kwargs[ParamName(e)]
        pk_name == PkNames(e)[1]
        key     == IntOf(update_data[pk_name])
        found   == PkMatches(rows, pk_name, key)
        applied == UpdateAppliedKeys(rev, e, update_data)
        changes == [k \in applied |-> update_data[k]]
        looked  == AcquireLog(rev) \o <<"query">>
    IN  IF key = None
        THEN Effect(rows, None, "ValueError", AcquireLog(rev), {})
        ELSE IF found = {}
        THEN Effect(rows, None, "NoResultFound", looked, {})
        ELSE IF Cardinality(found) > 1
        THEN Effect(rows, None, "MultipleResultsFound", looked, {})
        ELSE LET i == CHOOSE j \in found : TRUE
                 tried == looked \o <<"add", "commit">>
             IN  IF dbfail \/ UpdateFails(e, rows, i, changes)
                 THEN Effect(rows, None, FailureExc(rev),
                             tried \o FailureLog(rev), applied)
                 ELSE Effect(ReplaceAt(rows, i, ChangedRow(e, rows[i], changes)),
                             Obj(ChangedRow(e, rows[i], changes)), NoExc,
                             tried \o ReleaseLog(rev), applied)

\* A delete that filters on the first primary-key column only.
DeletePkNamesFirst(rev, e) == <<PkNames(e)[1]>>
\* The primary-key columns delete filters on: sgs all of them, fbsak the first.
DeletePkNames(rev, e) == IF rev = "sgs" THEN PkNames(e) ELSE <<PkNames(e)[1]>>

DeleteMatches(rev, e, row, kwargs) ==
    \A i \in 1..Len(DeletePkNames(rev, e)) :
        row[DeletePkNames(rev, e)[i]] = IntOf(kwargs[DeletePkNames(rev, e)[i]])

delete_mutate_func(rev, e, rows, kwargs, dbfail) ==
    LET names == DeletePkNames(rev, e)
        bad   == \E i \in 1..Len(names) :
                    names[i] \notin DOMAIN kwargs \/ IntOf(kwargs[names[i]]) = None
        kept  == SelectSeq(rows, LAMBDA r : ~DeleteMatches(rev, e, r, kwargs))
        deleted_count == Len(rows) - Len(kept)
        tried == AcquireLog(rev) \o <<"delete", "commit">>
    IN  IF bad
        THEN Effect(rows, None, "TypeError", AcquireLog(rev), {})
        ELSE IF dbfail
        THEN Effect(rows, None, FailureExc(rev), tried \o FailureLog(rev), {})
        ELSE Effect(kept, I(deleted_count), NoExc, tried \o ReleaseLog(rev), {})


(***************************************************************************)
(* Filter/Order Vocabulary and the list resolver.                          *)
(***************************************************************************)
\* An enum that has a member for every branch of the newer chain.
FilterOperationOfChain ==
    {"EQ", "NEQ", "IS", "ISNOT", "ISNULL", "ISNOTNULL", "LT", "GT", "LIKE", "NOTLIKE",
     "ILIKE", "NOTILIKE", "IN", "NOTIN", "BETWEEN"}
\* extra.py: the members of the FilterOperation and OrderByOperation enums.
FilterOperation ==
    {"EQ", "NEQ", "IS", "ISNOT", "LT", "GT", "LIKE", "NOTLIKE", "ILIKE", "NOTILIKE"}
OrderByOperation == {"ASC", "DESC"}
order_by_ops == {"ASC", "DESC"}

\* The members the if/elif chain of resolve_func names, in its order.
FilterChain(rev) ==
    IF rev = "sgs"
    THEN << "EQ", "NEQ", "IS", "ISNOT", "ISNULL", "ISNOTNULL", "LT", "GT",
            "LIKE", "NOTLIKE", "ILIKE", "NOTILIKE", "IN", "NOTIN", "BETWEEN" >>
    ELSE << "EQ", "NEQ", "IS", "ISNOT", "LT", "GT",
            "LIKE", "NOTLIKE", "ILIKE", "NOTILIKE" >>

\* The text of a value, as a sequence of characters (str(v) in an f-string,
\* and the engine's text of a column in LIKE).
Chars(s) ==
    CASE s = ""    -> <<>>
      [] s = "Ann" -> <<"A", "n", "n">>
      [] s = "Bob" -> <<"B", "o", "b">>
      [] s = "n"   -> <<"n">>
      [] s = "b"   -> <<"b">>
      [] s = "B"   -> <<"B">>
      [] OTHER     -> <<s>>
RECURSIVE Digits(_)
Digits(n) ==
    IF n < 10 THEN <<StrOfInt(n)>> ELSE Digits(n \div 10) \o <<StrOfInt(n % 10)>>
TextOf(v) ==
    CASE v[1] = "str"  -> Chars(v[2])
      [] v[1] = "int"  -> IF v[2] < 0 THEN <<"-">> \o Digits(0 - v[2]) ELSE Digits(v[2])
      [] v[1] = "none" -> <<"N", "o", "n", "e">>
      [] OTHER         -> <<"?">>
LowerCh(c) == CASE c = "A" -> "a" [] c = "B" -> "b" [] c = "N" -> "n" [] OTHER -> c
LowerText(t) == [i \in 1..Len(t) |-> LowerCh(t[i])]
Contains(t, pat) ==
    \E i \in 0..(Len(t) - Len(pat)) : SubSeq(t, i + 1, i + Len(pat)) = pat

\* The order of the engine on the values of one column; NULL sorts first.
SortKey(v) ==
    CASE v[1] = "none" -> -1
      [] v[1] = "int"  -> v[2]
      [] v[1] = "str"  -> (CASE v[2] = "Ann" -> 1 [] v[2] = "Bob" -> 2 [] OTHER -> 0)
      [] OTHER         -> 0

\* Whether the row value x passes the SQL the branch of `op` builds with the
\* operand v (a comparison with NULL is not true; == None is IS NULL).
ClauseHolds(op, x, clause) ==
    LET v == clause.v
    IN  CASE op = "EQ"        -> IF v = None THEN x = None ELSE x # None /\ x = v
          [] op = "NEQ"       -> IF v = None THEN x # None ELSE x # None /\ x # v
          [] op = "IS"        -> x = v
          [] op = "ISNOT"     -> x # v
          [] op = "ISNULL"    -> x = None
          [] op = "ISNOTNULL" -> x # None
          [] op = "LT"        -> x # None /\ v # None /\ SortKey(x) < SortKey(v)
          [] op = "GT"        -> x # None /\ v # None /\ SortKey(x) > SortKey(v)
          [] op = "LIKE"      -> x # None /\ Contains(TextOf(x), TextOf(v))
          [] op = "NOTLIKE"   -> x # None /\ ~Contains(TextOf(x), TextOf(v))
          [] op = "ILIKE"     ->
                x # None /\ Contains(LowerText(TextOf(x)), LowerText(TextOf(v)))
          [] op = "NOTILIKE"  ->
                x # None /\ ~Contains(LowerText(TextOf(x)), LowerText(TextOf(v)))
          [] op = "IN"        -> x # None /\ \E i \in 1..Len(clause.vl) : clause.vl[i] = x
          [] op = "NOTIN"     -> x # None /\ \A i \in 1..Len(clause.vl) : clause.vl[i] # x
          [] op = "BETWEEN"   ->
                /\ x # None /\ clause.vl[1] # None /\ clause.vl[2] # None
                /\ SortKey(clause.vl[1]) <= SortKey(x)
                /\ SortKey(x) <= SortKey(clause.vl[2])
          [] OTHER            -> TRUE

\* What evaluating the chain for a clause raises, "none" when it raises nothing.
\* FilterOperation.get(op) raises for a value that is no member; reaching a
\* branch that names a member the enum lacks raises AttributeError; the
\* IN/NOTIN/BETWEEN branches read the clause's vl.
RECURSIVE ChainBranch(_, _, _)
ChainBranch(chain, op, i) ==
    IF i > Len(chain) THEN [exc |-> NoExc, branch |-> "skipped"]
    ELSE IF chain[i] \notin FilterOperation
    THEN [exc |-> "AttributeError", branch |-> "none"]
    ELSE IF op = chain[i] THEN [exc |-> NoExc, branch |-> chain[i]]
    ELSE ChainBranch(chain, op, i + 1)

\* A chain that compares filter_obj.op itself and never calls FilterOperation.get.
ClauseBranchNoGet(rev, clause) == ChainBranch(FilterChain(rev), clause.op, 1)
ClauseBranch(rev, clause) ==
    IF clause.op \notin FilterOperation
    THEN [exc |-> "ValueError", branch |-> "none"]
    ELSE LET b == ChainBranch(FilterChain(rev), clause.op, 1)
         IN  IF b.branch \in {"IN", "NOTIN", "BETWEEN"} /\ "vl" \notin DOMAIN clause
             THEN [exc |-> "AttributeError", branch |-> "none"]
             ELSE IF b.branch = "BETWEEN" /\ Len(clause.vl) < 2
             THEN [exc |-> "IndexError", branch |-> "none"]
             ELSE b

\* A loop that passes over a clause keyed by a name that is no column.
ApplyClauseKnownOnly(rev, e, acc, filter_name, clause) ==
    IF acc.exc # NoExc \/ ~HasColumn(e, filter_name) THEN acc
    ELSE LET b == ClauseBranch(rev, clause)
         IN  IF b.exc # NoExc THEN [acc EXCEPT !.exc = b.exc]
             ELSE IF b.branch = "skipped" THEN acc
             ELSE [acc EXCEPT !.rows =
                      SelectSeq(acc.rows,
                                LAMBDA r : ClauseHolds(b.branch, r[filter_name], clause)),
                                !.applied = Append(acc.applied, <<filter_name, b.branch>>)]
\* q = q.filter(...) for the clause keyed by filter_name.
ApplyClause(rev, e, acc, filter_name, clause) ==
    IF acc.exc # NoExc THEN acc
    ELSE IF ~HasColumn(e, filter_name) THEN [acc EXCEPT !.exc = "KeyError"]
    ELSE LET b == ClauseBranch(rev, clause)
         IN  IF b.exc # NoExc THEN [acc EXCEPT !.exc = b.exc]
             ELSE IF b.branch = "skipped" THEN acc
             ELSE [acc EXCEPT !.rows =
                      SelectSeq(acc.rows,
                                LAMBDA r : ClauseHolds(b.branch, r[filter_name], clause)),
                                !.applied = Append(acc.applied, <<filter_name, b.branch>>)]

\* One element of the filters list: a dict from column names to clauses, here
\* the sequence of its (name, clause) items.  The inner loop rebinds filter_obj
\* to the clause it has just read, so from the second name on it indexes that
\* clause, not the element.
RECURSIVE ApplyElementRest(_, _, _, _, _)
ApplyElementRest(rev, e, acc, bound, items) ==
    IF items = <<>> \/ acc.exc # NoExc THEN acc
    ELSE LET filter_name == Head(items)[1]
         IN  IF filter_name \notin DOMAIN bound
             THEN [acc EXCEPT !.exc = "KeyError"]
             ELSE [acc EXCEPT !.exc = "AttributeError"]

ApplyElement(rev, e, acc, items) ==
    IF items = <<>> \/ acc.exc # NoExc THEN acc
    ELSE ApplyElementRest(rev, e,
                          ApplyClause(rev, e, acc, Head(items)[1], Head(items)[2]),
                          Head(items)[2], Tail(items))

RECURSIVE ApplyFilters(_, _, _, _)
ApplyFilters(rev, e, acc, filter_obj_list) ==
    IF filter_obj_list = <<>> THEN acc
    ELSE ApplyFilters(rev, e, ApplyElement(rev, e, acc, Head(filter_obj_list)),
                      Tail(filter_obj_list))

\* ORDER BY one column, ascending or descending.
RECURSIVE InsertSorted(_, _, _, _)
InsertSorted(sorted, r, f, o) ==
    IF sorted = <<>> THEN <<r>>
    ELSE IF (o = "ASC" /\ SortKey(r[f]) < SortKey(Head(sorted)[f]))
            \/ (o = "DESC" /\ SortKey(r[f]) > SortKey(Head(sorted)[f]))
    THEN <<r>> \o sorted
    ELSE <<Head(sorted)>> \o InsertSorted(Tail(sorted), r, f, o)
\* A query that ignores its order_by.
OrderByIgnored(rows, f, o) == rows
RECURSIVE OrderBy(_, _, _)
OrderBy(rows, f, o) ==
    IF rows = <<>> THEN <<>>
    ELSE InsertSorted(OrderBy(SubSeq(rows, 1, Len(rows) - 1), f, o),
                      rows[Len(rows)], f, o)

\* page = max(0, kwargs.get("page") - 1); q.limit(perpage).offset(page * perpage)
PaginationNoClamp(page, perpage) ==
    [limit |-> perpage, offset |-> (page - 1) * perpage]
Pagination(page, perpage) ==
    [limit |-> perpage, offset |-> Max(0, page - 1) * perpage]

\* LIMIT n OFFSET k of the engine: the rows after the first k, at most n.
Slice(rows, limit, offset) ==
    LET from == Max(0, offset) + 1
        upto == IF offset + limit < Len(rows) THEN offset + limit ELSE Len(rows)
    IN  IF upto < from THEN <<>> ELSE SubSeq(rows, from, upto)

resolve_func(rev, e, rows, kwargs) ==
    LET filter_obj_list == IF "filters" \in DOMAIN kwargs THEN kwargs["filters"] ELSE <<>>
        filtered == ApplyFilters(rev, e, [rows |-> rows, exc |-> NoExc, applied |-> <<>>],
                                 filter_obj_list)
        has_order == "order_by" \in DOMAIN kwargs
        order_by_params == kwargs["order_by"]
        order_exc ==
            IF ~has_order THEN NoExc
            ELSE IF order_by_params.o \notin order_by_ops THEN "KeyError"
            ELSE IF ~HasColumn(e, order_by_params.f) THEN "KeyError"
            ELSE NoExc
        ordered == IF ~has_order THEN filtered.rows
                   ELSE OrderBy(filtered.rows, order_by_params.f, order_by_params.o)
        p == Pagination(kwargs["page"], kwargs["perpage"])
        failed(exc) == [Effect(rows, None, exc, AcquireLog(rev), {}) EXCEPT
                           !.query = [NoQuery EXCEPT !.filters = filtered.applied]]
    IN  IF filtered.exc # NoExc THEN failed(filtered.exc)
        ELSE IF order_exc # NoExc THEN failed(order_exc)
        ELSE [Effect(rows, L(Slice(ordered, p.limit, p.offset)), NoExc,
                     AcquireLog(rev) \o <<"query">> \o ReleaseLog(rev), {}) EXCEPT
                 !.query = [limit |-> p.limit, offset |-> p.offset, executed |-> TRUE,
                            filters |-> filtered.applied]]


(***************************************************************************)
(* What graphene hands a resolver: keyword arguments that passed the       *)
(* validation of the generated input types.                                *)
(***************************************************************************)
Kinds == {"read", "create", "update", "delete"}

\* The values a caller can send for a field of a scalar type.
InputValues(t) ==
    CASE t = "ID"     -> {S(StrOfInt(i)) : i \in 1..MaxId}
      [] t = "Int"    -> {I(17)}
      [] t = "String" -> {S("Ann")}
      [] OTHER        -> {}

\* The coerced values of an input object type: a required field is present
\* and not null, an omitted field with a default_value carries that default,
\* any other field is absent, null or a value of its type.
FieldChoices(f) ==
    IF FieldRequired(f) THEN InputValues(f.type)
    ELSE InputValues(f.type) \cup {None}
         \cup (IF FieldHasDefault(f) THEN {f.args["default_value"]} ELSE {})
FieldMayBeAbsent(f) == ~FieldRequired(f) /\ ~FieldHasDefault(f)

Payloads(input) ==
    LET names == DOMAIN input.fields
        must  == {n \in names : ~FieldMayBeAbsent(input.fields[n])}
        all   == UNION {FieldChoices(input.fields[n]) : n \in names}
    IN  UNION { {d \in [D -> all] : \A n \in D : d[n] \in FieldChoices(input.fields[n])}
                : D \in {D \in SUBSET names : must \subseteq D} }

CreateKwargs(rev, e) ==
    {(ParamName(e) :> d) :
        d \in Payloads(create_gql_create_input_object_type_from_sa_class(rev, e))}
UpdateKwargs(rev, e) ==
    {(ParamName(e) :> d) :
        d \in Payloads(create_gql_update_input_object_type_from_sa_class(e))}
DeleteKwargs(rev, e) ==
    LET names == DOMAIN create_gql_mutation_delete_arguments_class(rev, e).fields
    IN  [names -> {I(i) : i \in 1..MaxId}]

\* The list field's arguments: filters, order_by, page (default 1) and
\* perpage (default 50).
PageInputs == -1..MaxPage
PerPageInputs == {1, 10, 50}
Clause(op, v) == [op |-> op, v |-> v]
\* A clause that carries a list of operands next to op and v.
ClauseVl(op, vl) == [op |-> op, v |-> None, vl |-> vl]
\* A name that is the name of no column of the entities.
NoColumn == "nope"
\* The resolver is a plain function of **kwargs: next to the requests graphene
\* lets through, it can be handed an op that is no member of the enum, a
\* clause with a vl, and names that are no columns.
FilterInputs(e) ==
    LET c1 == e.columns[1].name
        c3 == e.columns[Len(e.columns)].name
    IN  { <<>>,
          << << <<c3, Clause("EQ", I(17))>> >> >>,
          << << <<c1, Clause("NEQ", I(1))>> >>, << <<c3, Clause("IS", None)>> >> >>,
          << << <<c1, Clause("GT", I(1))>> >> >>,
          << << <<c1, Clause("EQ", I(1))>>, <<c3, Clause("EQ", I(17))>> >> >>,
          << << <<c1, Clause("EQ", I(1))>> >>, << <<c3, Clause("EQ", I(17))>> >> >>,
          << << <<c1, Clause("REGEX", I(1))>> >> >>,
          << << <<c3, Clause("EQ", I(17))>> >>, << <<c1, Clause("REGEX", I(1))>> >> >>,
          << << <<NoColumn, Clause("EQ", I(1))>> >> >>,
          << << <<c1, ClauseVl("BETWEEN", <<I(1), I(2)>>)>> >> >>,
          << << <<c1, ClauseVl("BETWEEN", <<I(1), I(2), I(3)>>)>> >> >>,
          << << <<c1, ClauseVl("BETWEEN", <<I(1)>>)>> >> >>,
          << << <<c1, Clause("IN", I(1))>> >> >>,
          << << <<c3, Clause("ISNULL", I(17))>> >> >>,
          << << <<c3, Clause("ISNOTNULL", None)>> >> >> }
OrderInputs(e) ==
    {[f |-> e.columns[1].name, o |-> "DESC"],
     [f |-> e.columns[Len(e.columns)].name, o |-> "ASC"],
     [f |-> NoColumn, o |-> "ASC"]}
PageKwargs(pg, pp) == ("page" :> pg) @@ ("perpage" :> pp)
ReadKwargs(e) ==
    LET paged == {PageKwargs(pg, pp) : pg \in PageInputs, pp \in PerPageInputs}
        f1 == << << <<e.columns[Len(e.columns)].name, Clause("EQ", I(17))>> >> >>
    IN  paged
        \cup {("filters" :> fl) @@ kw : fl \in FilterInputs(e), kw \in paged}
        \cup {("order_by" :> ob) @@ kw : ob \in OrderInputs(e), kw \in paged}
        \cup {("order_by" :> ob) @@ ("filters" :> f1) @@ kw :
                 ob \in OrderInputs(e), kw \in paged}

KwargsOf(kind, rev, e) ==
    CASE kind = "read"   -> ReadKwargs(e)
      [] kind = "create" -> CreateKwargs(rev, e)
      [] kind = "update" -> UpdateKwargs(rev, e)
      [] OTHER           -> DeleteKwargs(rev, e)

\* The body of the resolver of a kind.
ResolverBody(kind, rev, e, rows, kwargs, dbfail) ==
    CASE kind = "read"   -> resolve_func(rev, e, rows, kwargs)
      [] kind = "create" -> create_mutate_func(rev, e, rows, kwargs, dbfail)
      [] kind = "update" -> update_mutate_func(rev, e, rows, kwargs, dbfail)
      [] OTHER           -> delete_mutate_func(rev, e, rows, kwargs, dbfail)

\* The sessions left open by the session calls of log, n being open before.
RECURSIVE OpenAfter(_, _)
OpenAfter(log, n) ==
    IF log = <<>> THEN n
    ELSE OpenAfter(Tail(log),
                   CASE Head(log) = "acquire" -> n + 1
                     [] Head(log) = "close"   -> n - 1
                     [] OTHER                 -> n)


(***************************************************************************)
(* State.                                                                  *)
(***************************************************************************)
VARIABLES
    rev,          \* the revision of the library that runs
    ent,          \* the entity the resolvers were generated for
    store,        \* the committed rows of ent's table
    sessions,     \* sessions acquired and not closed
    ncalls,       \* resolver invocations so far
    op_hooks,     \* the operation kinds a hook class is registered for
    pc,           \* position of the invocation in flight
    last,         \* the invocation in flight: kind, kwargs, table and open sessions
                  \* before it, the effect of the resolver body, and whether the
                  \* engine failed its commit
    events,       \* its pre / body / post calls, in order
    outcome,      \* what it returned or raised to the caller
    deleted_ids,  \* history: the delete arguments that deleted one row, until
                  \* a create makes a row with that identifier again
    models,       \* the model classes of the declarative base being generated for
    flags,        \* generate_query / generate_mutation of the run
    gpc,          \* position of the generation run
    gi,           \* index in models of the class the loop is at
    root_query,   \* root_query_class_dict
    root_mutation,\* root_mutation_class_dict
    fop_registry, \* __SCHEMAGEN_filter_op_type_class_registry
    made,         \* every filter-op type constructed so far, oldest first
    returned,     \* every filter-op type a request was answered with
    field_enum_registry, \* __SCHEMAGEN_field_enum_by_sa_type_registry
    enums_made,   \* per class name, the field enums constructed so far
    runs,         \* generation runs started in this process
    cpc,          \* per concurrent invocation, the statement it is at
    csession,     \* per concurrent invocation, the session it holds, 0 for none
    handed,       \* the sessions created so far
    session_state,\* per session, the instances added and not flushed, and whether
                  \* a failed flush has left its transaction inactive
    ceffect,      \* history: per invocation, whose instances its commit wrote
                  \* and whose its rollback discarded
    coutcome      \* per concurrent invocation, what it returned or raised

rtvars == <<rev, ent, store, sessions, ncalls, op_hooks, pc, last, events, outcome,
            deleted_ids>>
genvars == <<models, flags, gpc, gi, root_query, root_mutation, fop_registry, made,
             returned, field_enum_registry, enums_made, runs>>
\* The generator's state but for the registry of filter-op types.
genrest == <<models, flags, gpc, gi, root_query, root_mutation, made, returned,
             field_enum_registry, enums_made, runs>>
concvars == <<cpc, csession, handed, session_state, ceffect, coutcome>>
vars == <<rtvars, genvars, concvars>>

\* No generation run has started.
GenIdle ==
    /\ models = <<>>
    /\ flags = [query |-> TRUE, mutation |-> TRUE]
    /\ gpc = "idle"
    /\ gi = 1
    /\ root_query = EmptyDict
    /\ root_mutation = EmptyDict
    /\ fop_registry = EmptyDict
    /\ made = <<>>
    /\ returned = {}
    /\ field_enum_registry = EmptyDict
    /\ enums_made = EmptyDict
    /\ runs = 0

RuntimeEntities == {User, Pair}

\* The invocations the transport runs at once, and the sessions they can hold.
Procs == 1..MaxProcs
NoSession == 0
CleanSession == [pending |-> <<>>, inactive |-> FALSE]
NoConcEffect == [wrote |-> <<>>, dropped |-> <<>>]
\* No concurrent invocation has started.
ConcIdle ==
    /\ cpc = [p \in Procs |-> "start"]
    /\ csession = [p \in Procs |-> NoSession]
    /\ handed = 0
    /\ session_state = [s \in Procs |-> CleanSession]
    /\ ceffect = [p \in Procs |-> NoConcEffect]
    /\ coutcome = [p \in Procs |-> "none"]

Row3(e, x, y, z) ==
    (e.columns[1].name :> x) @@ (e.columns[2].name :> y) @@ (e.columns[3].name :> z)
SampleRows(e) ==
    IF e = User
    THEN << Row3(User, I(1), S("Ann"), I(17)), Row3(User, I(2), S("Bob"), None),
            Row3(User, I(3), S("Ann"), I(18)) >>
    ELSE << Row3(Pair, I(1), I(1), I(17)), Row3(Pair, I(2), I(1), None),
            Row3(Pair, I(1), I(2), I(17)) >>
\* The tables the store may hold when the resolvers start serving: the sample
\* rows, any of them left out, at most MaxRows of them.
RECURSIVE SubSeqs(_)
SubSeqs(seq) ==
    IF seq = <<>> THEN {<<>>}
    ELSE LET rest == SubSeqs(Tail(seq))
         IN  rest \cup {<<Head(seq)>> \o t : t \in rest}
InitialTables(e) == {t \in SubSeqs(SampleRows(e)) : Len(t) <= MaxRows}

NoCall == [kind |-> "none", kwargs |-> EmptyDict, before |-> <<>>, open |-> 0]
NoEffect == Effect(<<>>, None, NoExc, <<>>, {})
NoOutcome == [how |-> "none", value |-> None]
Returned(v) == [how |-> "return", value |-> v]
Raised(exc) == [how |-> "raise", value |-> S(exc)]
OutcomeOf(eff) == IF eff.exc # NoExc THEN Raised(eff.exc) ELSE Returned(eff.ret)

InitRuntime ==
    /\ rev \in Revisions
    /\ ent \in RuntimeEntities
    /\ store \in InitialTables(ent)
    /\ sessions = 0
    /\ ncalls = 0
    /\ pc = "idle"
    /\ last = [call |-> NoCall, eff |-> NoEffect, dbfail |-> FALSE]
    /\ events = <<>>
    /\ outcome = NoOutcome
    /\ deleted_ids = {}
    /\ GenIdle
    /\ ConcIdle

\* The argument sets, computed once per kind, revision and entity.
KwargsTable ==
    [kind \in Kinds |-> [r \in Revisions |-> [e \in RuntimeEntities |->
        KwargsOf(kind, r, e)]]]

Idle == pc = "idle" /\ ncalls < MaxCalls

\* A list resolver that registers a type of its own on its first use.
RegistryAfterCallLazy(registry, kind) ==
    IF kind = "read" THEN SetItem(registry, "Lazy", None) ELSE registry
\* The registry after a resolver body has run: the bodies name neither
\* graphql_filter_op_type_registry nor a function that writes it.
RegistryAfterCall(registry, kind) == registry

\* Makers that all look up the hook of READ.
HookOperationOfRead(kind) == "read"
\* The key under which the maker of a kind's resolver looks up its hook:
\* hooks.get(HookOperation.READ) in make_resolve_func_maker, UPDATE, CREATE
\* and DELETE in the makers of the three mutations.
HookOperationOf(kind) ==
    CASE kind = "read"   -> "read"
      [] kind = "update" -> "update"
      [] kind = "create" -> "create"
      [] kind = "delete" -> "delete"
\* if read_hook: final_resolve_func = read_hook(resolve_func), and its like.
Hooked(kind) == HookOperationOf(kind) \in op_hooks

\* The identifiers deleted and not created again, after a call with effect eff:
\* a delete that returned deleted_count 1 adds its arguments, a create removes
\* the identifiers its new row carries.
DeletedAfter(ids, kind, kwargs, eff) ==
    CASE kind = "delete" /\ eff.exc = NoExc /\ eff.ret = I(1) -> ids \cup {kwargs}
      [] kind = "create" /\ eff.exc = NoExc ->
            {id \in ids : \E n \in DOMAIN id :
                             eff.store[Len(eff.store)][n] # IntOf(id[n])}
      [] OTHER -> ids

\* The invocation is over: the caller has its result.
Return ==
    /\ pc = "done"
    /\ pc' = "idle"
    /\ last' = [call |-> NoCall, eff |-> NoEffect, dbfail |-> FALSE]
    /\ events' = <<>>
    /\ outcome' = NoOutcome
    /\ UNCHANGED <<rev, ent, store, sessions, ncalls, op_hooks, deleted_ids, genvars, concvars>>

(***************************************************************************)
(* The resolvers as generated with no hook registered for their kind: an   *)
(* invocation runs the resolver body and nothing else.                     *)
(***************************************************************************)
Invoke(kind, kwargs, dbfail) ==
    \E eff \in {ResolverBody(kind, rev, ent, store, kwargs, dbfail)} :
        /\ ~Hooked(kind)
        /\ Len(eff.store) <= MaxRows
        /\ store' = eff.store
        /\ sessions' = OpenAfter(eff.log, sessions)
        /\ ncalls' = ncalls + 1
        /\ pc' = "done"
        /\ last' = [call |-> [kind |-> kind, kwargs |-> kwargs, before |-> store,
                                open |-> sessions],
                    eff |-> eff, dbfail |-> dbfail]
        /\ outcome' = OutcomeOf(eff)
        /\ deleted_ids' = DeletedAfter(deleted_ids, kind, kwargs, eff)
        /\ fop_registry' = RegistryAfterCall(fop_registry, kind)
        /\ UNCHANGED <<rev, ent, op_hooks, events, genrest, concvars>>

List   == /\ Idle
          /\ \E kw \in KwargsTable["read"][rev][ent] : Invoke("read", kw, FALSE)
Create == /\ Idle
          /\ \E kw \in KwargsTable["create"][rev][ent], f \in BOOLEAN :
                Invoke("create", kw, f)
Update == /\ Idle
          /\ \E kw \in KwargsTable["update"][rev][ent], f \in BOOLEAN :
                Invoke("update", kw, f)
Delete == /\ Idle
          /\ \E kw \in KwargsTable["delete"][rev][ent], f \in BOOLEAN :
                Invoke("delete", kw, f)

InitStore == InitRuntime /\ op_hooks = {}
NextStore == Create \/ Update \/ Delete \/ Return
SpecStore == InitStore /\ [][NextStore]_vars

NextList == List \/ Return
SpecList == InitStore /\ [][NextList]_vars

(***************************************************************************)
(* The hook wrapper, SchemaGenHooksBase.__call__: the hook class of a kind *)
(* decorates the resolver of that kind; an invocation calls pre, the body  *)
(* and post, one step each.                                                *)
(***************************************************************************)
\* What a pre hook can return (PreHookResult, or nothing at all).
PreResults == {"CONTINUE", "STOP", "NONE"}
\* What a post hook can return: nothing, a replacement, or a falsy value.
PostValues == {None, Obj("replacement"), I(0), I(7), B(FALSE), S(""), L(<<>>)}

\* What the code of a pre or post hook can raise instead of returning.
HookFailures == {"PermissionError"}
\* The record of a hook call that raised.
Thrown(exc) == <<"exc", exc>>

Event(ev, args, given, ret) == [ev |-> ev, args |-> args, given |-> given, ret |-> ret]

\* A wrapper that turns the failure of a hook into its own exception.
Wrapped(exc) == Raised("SchemaGenHookException")
\* __call__ has no handler around self.pre(...) and self.post(...): what they
\* raise leaves __call__ as it is.
Unhandled(exc) == Raised(exc)

PreStopsNever(pre_result) == FALSE
\* if pre_result == PreHookResult.STOP
PreStops(pre_result) == pre_result = "STOP"

PostGivenNothing(decorated_func_retval) == None
\* self.post(*args, decorated_func_retval, **kwargs)
PostGiven(decorated_func_retval) == decorated_func_retval

\* if post_retval: return post_retval / return decorated_func_retval
HookResult(post_retval, decorated_func_retval) ==
    IF Truthy(post_retval) THEN post_retval ELSE decorated_func_retval

\* The arguments the hooked resolvers are invoked with.
HookKwargs(kind, r, e) ==
    IF kind = "read"
    THEN {kw \in ReadKwargs(e) : kw.page = 1 /\ kw.perpage = 50}
    ELSE KwargsOf(kind, r, e)
HookKwargsTable ==
    [kind \in Kinds |-> [r \in Revisions |-> [e \in RuntimeEntities |->
        HookKwargs(kind, r, e)]]]

\* The decorated resolver is called.
HookCall ==
    /\ Idle
    /\ \E kind \in Kinds :
         \E kw \in HookKwargsTable[kind][rev][ent] :
            /\ Hooked(kind)
            /\ Len(ResolverBody(kind, rev, ent, store, kw, FALSE).store) <= MaxRows
            /\ pc' = "pre"
            /\ ncalls' = ncalls + 1
            /\ last' = [call |-> [kind |-> kind, kwargs |-> kw, before |-> store,
                                    open |-> sessions],
                        eff |-> NoEffect, dbfail |-> FALSE]
            /\ events' = <<>>
            /\ outcome' = NoOutcome
            /\ UNCHANGED <<rev, ent, store, sessions, op_hooks, deleted_ids, genvars, concvars>>

\* pre_result = self.pre(*args, **kwargs), and the STOP test.
HookPre ==
    /\ pc = "pre"
    /\ \/ \E pre_result \in PreResults :
            /\ events' = Append(events, Event("pre", last.call.kwargs, None, S(pre_result)))
            /\ IF PreStops(pre_result)
               THEN pc' = "done" /\ outcome' = Raised("SchemaGenHookException")
               ELSE pc' = "body" /\ outcome' = outcome
       \/ \E exc \in HookFailures :
            /\ events' = Append(events, Event("pre", last.call.kwargs, None, Thrown(exc)))
            /\ pc' = "done"
            /\ outcome' = Unhandled(exc)
    /\ UNCHANGED <<rev, ent, store, sessions, ncalls, op_hooks, last, deleted_ids,
                   genvars, concvars>>

\* decorated_func_retval = self.func_to_be_decorated(*args, **kwargs)
HookBody ==
    /\ pc = "body"
    /\ \E dbfail \in BOOLEAN :
         \E eff \in {ResolverBody(last.call.kind, rev, ent, store, last.call.kwargs, dbfail)} :
            /\ store' = eff.store
            /\ sessions' = OpenAfter(eff.log, sessions)
            /\ last' = [last EXCEPT !.eff = eff, !.dbfail = dbfail]
            /\ deleted_ids' = DeletedAfter(deleted_ids, last.call.kind,
                                           last.call.kwargs, eff)
            /\ events' = Append(events, Event("body", last.call.kwargs, None, eff.ret))
            /\ IF eff.exc # NoExc
               THEN pc' = "done" /\ outcome' = Raised(eff.exc)
               ELSE pc' = "post" /\ outcome' = outcome
    /\ fop_registry' = RegistryAfterCall(fop_registry, last.call.kind)
    /\ UNCHANGED <<rev, ent, ncalls, op_hooks, genrest, concvars>>

\* post_retval = self.post(*args, decorated_func_retval, **kwargs), and the return.
HookPost ==
    /\ pc = "post"
    /\ \/ \E post_retval \in PostValues :
            /\ events' = Append(events, Event("post", last.call.kwargs,
                                              PostGiven(last.eff.ret), post_retval))
            /\ outcome' = Returned(HookResult(post_retval, last.eff.ret))
       \/ \E exc \in HookFailures :
            /\ events' = Append(events, Event("post", last.call.kwargs,
                                              PostGiven(last.eff.ret), Thrown(exc)))
            /\ outcome' = Unhandled(exc)
    /\ pc' = "done"
    /\ UNCHANGED <<rev, ent, store, sessions, ncalls, op_hooks, last, deleted_ids,
                   genvars, concvars>>

\* A hook class is registered for every kind; the table holds one row and
\* has room for a created one.
InitHook ==
    /\ InitRuntime
    /\ store = SubSeq(SampleRows(ent), 1, 1)
    /\ op_hooks = Kinds
NextHook == HookCall \/ HookPre \/ HookBody \/ HookPost \/ Return
SpecHook == InitHook /\ [][NextHook]_vars

(***************************************************************************)
(* The generator: get_graphene_schema builds the query root, then the      *)
(* mutation root, one model class per step.  The filter-op registry is a   *)
(* module global: it outlives the run and the generator.                   *)
(***************************************************************************)
\* A model class with one owned column, of any nullability and default.
Tag(nullable, default) ==
    Entity("Tag", "tags", "a tag",
           << Column("id", "Integer", FALSE, NoDefault, TRUE, ""),
              Column("weight", "Float", nullable, default, FALSE, "") >>)
ColumnDefaults == {NoDefault, ScalarDefault(I(0)), CallableDefault}
TagVariants == {Tag(n, d) : n \in BOOLEAN, d \in ColumnDefaults}

\* get_all_sa_model_classes: the classes a declarative base may hold, in the
\* order of its class registry.  The registry is keyed by class name and the
\* metadata by table name, so both are distinct among the classes.
ModelSets ==
    {ms \o t : ms \in SubSeqs(<<User, Pair, Link>>),
               t \in {<<>>} \cup {<<v>> : v \in TagVariants}}

\* mci.tables[0].name
get_sa_queryable_name(e) == e.tablename
make_resolve_func_maker_func_name(e) == "resolve_" \o get_sa_queryable_name(e)

sa_table_name_of_class(e) == e.name
\* sa_queryable_object.__tablename__
sa_table_name(e) == e.tablename

\* f'"{mc.__doc__}"\\\n' if mc.__doc__ else "", then the first primary key.
make_gql_object_description_from_sa_model_class(e) == <<e.doc, PkNames(e)[1]>>

\* type(f"{name}FilterOp", (graphene.InputObjectType,), {"op": ..., "v": ...}):
\* the n-th type object constructed in the process.
FilterOpType(graphql_type_name, n) ==
    [name |-> graphql_type_name \o "FilterOp", op |-> FilterOperation,
     v |-> graphql_type_name, id |-> n]

create_graphql_filter_op_type_class_always(st, graphql_type_name) ==
    LET fop == FilterOpType(graphql_type_name, Len(st.made) + 1)
    IN  [st  |-> [registry |-> SetItem(st.registry, graphql_type_name, fop),
                  made |-> Append(st.made, fop)],
         fop |-> fop]
\* st holds the registry and the types constructed so far.
create_or_get_graphql_filter_op_type_class(st, graphql_type_name) ==
    IF graphql_type_name \notin DOMAIN st.registry
    THEN LET fop == FilterOpType(graphql_type_name, Len(st.made) + 1)
         IN  [st  |-> [registry |-> SetItem(st.registry, graphql_type_name, fop),
                       made |-> Append(st.made, fop)],
              fop |-> fop]
    ELSE [st |-> st, fop |-> st.registry[graphql_type_name]]

\* The loop of the filter input builder over the columns.
RECURSIVE FilterClassItems(_, _, _)
FilterClassItems(cols, st, class_items) ==
    IF cols = <<>> THEN [st |-> st, class_items |-> class_items]
    ELSE LET graphql_column_type ==
                 get_graphql_field_type_for_sa_column(Head(cols), mask_ID_to_Int)
             r == create_or_get_graphql_filter_op_type_class(st, graphql_column_type)
         IN  FilterClassItems(Tail(cols), r.st,
                              SetItem(class_items, Head(cols).name, r.fop))

create_gql_get_query_filter_input_object_type_from_sa_model(mc, st) ==
    LET r == FilterClassItems(get_columns_from_sa_model_class(mc), st, EmptyDict)
    IN  [st |-> r.st, type |-> InputType(mc.name \o "QueryParams", r.class_items)]

\* graphene.Enum(f"{mc.__name__}FieldEnum", [...]): the n-th Enum object
\* constructed for the class name.
FieldEnum(mc, n) ==
    [name |-> mc.name \o "FieldEnum", members |-> SeqToSet(ColumnNames(mc)), id |-> n]

\* est holds the registry of field enums and the number of enums constructed
\* per class name.  The function looks the class name up and returns a new
\* Enum when it is absent; it has no statement that stores the Enum.
create_or_get_gql_field_list_enum_from_sa_model(est, mc) ==
    LET mc_name == mc.name
    IN  IF mc_name \in DOMAIN est.registry
        THEN [st |-> est, enum |-> est.registry[mc_name]]
        ELSE LET n == IF mc_name \in DOMAIN est.made THEN est.made[mc_name] + 1 ELSE 1
             IN  [st   |-> [registry |-> est.registry,
                            made |-> SetItem(est.made, mc_name, n)],
                  enum |-> FieldEnum(mc, n)]

create_gql_get_query_order_by_filter_input_object_type_from_sa_model(est, mc) ==
    LET r == create_or_get_gql_field_list_enum_from_sa_model(est, mc)
    IN  [st   |-> r.st,
         type |-> InputType(mc.name \o "OrderByParams",
                      ("f" :> Field(r.enum, SetItem(EmptyDict, "required", TRUE)))
                      @@ ("o" :> Field(OrderByOperation,
                                       SetItem(EmptyDict, "required", TRUE))))]

DefaultPage == 1
DefaultPerPage == 50

RootField(kind, e, input) == [kind |-> kind, entity |-> e.name, input |-> input]

\* generate_query_schema_sa_class: the resolver and the list field of a class.
generate_query_schema_sa_class(root_query_class_dict, e, st, est) ==
    LET f == create_gql_get_query_filter_input_object_type_from_sa_model(e, st)
        o == create_gql_get_query_order_by_filter_input_object_type_from_sa_model(est, e)
        list == RootField("List", e,
                    [description |-> make_gql_object_description_from_sa_model_class(e),
                     filters  |-> f.type,
                     order_by |-> o.type,
                     page     |-> DefaultPage,
                     perpage  |-> DefaultPerPage])
        d1 == SetItem(root_query_class_dict, make_resolve_func_maker_func_name(e),
                      RootField("resolver", e, EmptyDict))
    IN  [st |-> f.st, est |-> o.st, dict |-> SetItem(d1, sa_table_name(e), list)]

\* The body of the loop of generate_mutation_schema for one class.
generate_mutation_schema_sa_class(root_mutation_class_dict, r, e) ==
    LET lower == Lower(e.name)
        d1 == IF ~is_association_table(e)
              THEN SetItem(root_mutation_class_dict, "update_" \o lower,
                           RootField("update", e,
                                     create_gql_update_input_object_type_from_sa_class(e)))
              ELSE root_mutation_class_dict
        d2 == SetItem(d1, "create_" \o lower,
                      RootField("create", e,
                                create_gql_create_input_object_type_from_sa_class(r, e)))
    IN  SetItem(d2, "delete_" \o lower,
                RootField("delete", e, create_gql_mutation_delete_arguments_class(r, e)))

\* The part of get_graphene_schema that follows a stage.
NextStage(stage, f) ==
    CASE stage = "start" -> IF f.query THEN "query"
                            ELSE IF f.mutation THEN "mutation" ELSE "built"
      [] stage = "query" -> IF f.mutation THEN "mutation" ELSE "built"
      [] OTHER           -> "built"

\* A get_graphene_schema that starts every run on an empty registry.
GetGrapheneSchemaFresh ==
    /\ gpc \in {"idle", "built"}
    /\ runs < MaxRuns
    /\ \E ms \in ModelSets, gq \in BOOLEAN, gm \in BOOLEAN :
         /\ models' = ms
         /\ flags' = [query |-> gq, mutation |-> gm]
         /\ gpc' = NextStage("start", flags')
    /\ gi' = 1
    /\ root_query' = EmptyDict
    /\ root_mutation' = EmptyDict
    /\ runs' = runs + 1
    /\ fop_registry' = EmptyDict
    /\ field_enum_registry' = EmptyDict
    /\ UNCHANGED <<concvars, rtvars, made, returned, enums_made>>

\* get_graphene_schema(generate_query, generate_mutation) on a generator built
\* for a declarative base.
GetGrapheneSchema ==
    /\ gpc \in {"idle", "built"}
    /\ runs < MaxRuns
    /\ \E ms \in ModelSets, gq \in BOOLEAN, gm \in BOOLEAN :
         /\ models' = ms
         /\ flags' = [query |-> gq, mutation |-> gm]
         /\ gpc' = NextStage("start", flags')
    /\ gi' = 1
    /\ root_query' = EmptyDict
    /\ root_mutation' = EmptyDict
    /\ runs' = runs + 1
    /\ UNCHANGED <<concvars, rtvars, fop_registry, made, returned, field_enum_registry,
                   enums_made>>

GenerateQuerySaClass ==
    /\ gpc = "query"
    /\ gi <= Len(models)
    /\ \E g \in {generate_query_schema_sa_class(root_query, models[gi],
                    [registry |-> fop_registry, made |-> made],
                    [registry |-> field_enum_registry, made |-> enums_made])} :
         /\ root_query' = g.dict
         /\ field_enum_registry' = g.est.registry
         /\ enums_made' = g.est.made
         /\ fop_registry' = g.st.registry
         /\ made' = g.st.made
         /\ returned' = returned \cup
              {g.dict[sa_table_name(models[gi])].input.filters.fields[n] :
                 n \in SeqToSet(ColumnNames(models[gi]))}
    /\ gi' = gi + 1
    /\ UNCHANGED <<concvars, rtvars, models, flags, gpc, root_mutation, runs>>

\* type(f"Query_{api_name}", (graphene.ObjectType,), root_query_class_dict)
QuerySchemaBuilt ==
    /\ gpc = "query"
    /\ gi > Len(models)
    /\ gpc' = NextStage("query", flags)
    /\ gi' = 1
    /\ UNCHANGED <<concvars, rtvars, models, flags, root_query, root_mutation, fop_registry,
                   made, returned, field_enum_registry, enums_made, runs>>

GenerateMutationSaClass ==
    /\ gpc = "mutation"
    /\ gi <= Len(models)
    /\ root_mutation' = generate_mutation_schema_sa_class(root_mutation, rev, models[gi])
    /\ gi' = gi + 1
    /\ UNCHANGED <<concvars, rtvars, models, flags, gpc, root_query, fop_registry, made,
                   returned, field_enum_registry, enums_made, runs>>

\* type(f"Mutation_{api_name}", (graphene.ObjectType,), root_mutation_class_dict)
MutationSchemaBuilt ==
    /\ gpc = "mutation"
    /\ gi > Len(models)
    /\ gpc' = "built"
    /\ UNCHANGED <<concvars, rtvars, models, flags, gi, root_query, root_mutation, fop_registry,
                   made, returned, field_enum_registry, enums_made, runs>>

\* A process that generates schemas and serves nothing yet.
InitGen ==
    /\ rev \in Revisions
    /\ ent = User
    /\ store = <<>>
    /\ sessions = 0
    /\ ncalls = 0
    /\ op_hooks = {}
    /\ pc = "idle"
    /\ last = [call |-> NoCall, eff |-> NoEffect, dbfail |-> FALSE]
    /\ events = <<>>
    /\ outcome = NoOutcome
    /\ deleted_ids = {}
    /\ GenIdle
    /\ ConcIdle
NextGen ==
    \/ GetGrapheneSchema \/ GenerateQuerySaClass \/ QuerySchemaBuilt
    \/ GenerateMutationSaClass \/ MutationSchemaBuilt
SpecGen == InitGen /\ [][NextGen]_vars

(***************************************************************************)
(* Properties of the hook wrapper.                                         *)
(***************************************************************************)
HookOrder == <<"pre", "body", "post">>
PreStopped == events # <<>> /\ events[1].ev = "pre" /\ events[1].ret = S("STOP")

\* C1: when the pre hook of a hooked resolver returns STOP, the resolver body
\* and the post hook are not called, no session is acquired, the table is as
\* it was before the call, and the call raises SchemaGenHookException.
C1_StopAborts ==
    PreStopped =>
        /\ Len(events) = 1
        /\ last.eff = NoEffect
        /\ sessions = last.call.open
        /\ store = last.call.before
        /\ pc = "done"
        /\ outcome = Raised("SchemaGenHookException")
C1_Witness ==
    /\ PreStopped
    /\ pc = "done"
    /\ last.call.kind = "update"
    /\ last.call.before # <<>>

\* C2: a hooked call that was not stopped returns the post hook's value
\* whenever that value is not None (0, False, '' and [] included), and the
\* resolver's own result exactly when the post hook returns None.
C2_PostValueReturned ==
    (pc = "done" /\ Len(events) = 3 /\ events[3].ret \in PostValues) =>
        outcome = Returned(IF events[3].ret # None THEN events[3].ret
                           ELSE events[2].ret)

\* C3: in a hooked call that is not stopped the calls are pre, body, post in
\* that order, each once; post is given the value the body returned and the
\* arguments pre and the body were given.
C3_HookOrder ==
    /\ Len(events) <= 3
    /\ \A i \in 1..Len(events) :
         /\ events[i].ev = HookOrder[i]
         /\ events[i].args = last.call.kwargs
    /\ (pc = "post") => Len(events) = 2
    /\ (pc = "done" /\ outcome.how = "return") =>
         /\ Len(events) = 3
         /\ events[3].given = events[2].ret
         /\ events[2].ret = last.eff.ret
C3_Witness ==
    /\ pc = "done"
    /\ outcome.how = "return"
    /\ Len(events) = 3
    /\ events[1].ret = S("CONTINUE")
    /\ events[3].given # None
    /\ last.call.kind = "create"

(***************************************************************************)
(* Properties of the list resolver.                                        *)
(***************************************************************************)
ListDone == pc = "done" /\ last.call.kind = "read" /\ last.eff.query.executed

\* C4: the list resolver asks for limit = perpage and offset = (page-1)*perpage
\* when page >= 1 (page 1, perpage 50: limit 50, offset 0; page 3, perpage 10:
\* limit 10, offset 20); a page below 1 behaves as page 1, so the offset is
\* never negative; with no filter and no order the rows returned are those of
\* the table after the first offset, at most limit of them.
C4_Pagination ==
    ListDone =>
        LET page == last.call.kwargs["page"]
            perpage == last.call.kwargs["perpage"]
            q == last.eff.query
            got == last.eff.ret[2]
            table == last.call.before
            left == Len(table) - q.offset
        IN  /\ q.limit = perpage
            /\ q.offset = (IF page < 1 THEN 0 ELSE (page - 1) * perpage)
            /\ q.offset >= 0
            /\ (page = 1 /\ perpage = 50) => (q.limit = 50 /\ q.offset = 0)
            /\ (page = 3 /\ perpage = 10) => (q.limit = 10 /\ q.offset = 20)
            /\ (DOMAIN last.call.kwargs = {"page", "perpage"}) =>
                 /\ Len(got) = (IF left < 0 THEN 0 ELSE IF left < perpage THEN left
                                ELSE perpage)
                 /\ \A i \in 1..Len(got) : got[i] = table[q.offset + i]
C4_Witness ==
    /\ ListDone
    /\ last.call.kwargs = PageKwargs(0, 1)
    /\ Len(last.call.before) = 2
    /\ last.eff.ret = L(<<last.call.before[1]>>)

(***************************************************************************)
(* Properties of the mutation resolvers.                                   *)
(***************************************************************************)
UpdateDone == pc = "done" /\ last.call.kind = "update" /\ last.eff.exc = NoExc
CreateCalled == pc = "done" /\ last.call.kind = "create"
CreateDone == CreateCalled /\ last.eff.exc = NoExc
PkColumnNames == {c.name : c \in {x \in SeqToSet(ent.columns) : x.primary_key}}
OwnColumnNames == {c.name : c \in {x \in SeqToSet(ent.columns) : ~x.primary_key}}

\* C5: an update never changes the value of a primary-key column of a row,
\* whatever the payload carries, for single- and multi-column primary keys.
C5_UpdateKeepsPrimaryKey ==
    UpdateDone =>
        /\ Len(store) = Len(last.call.before)
        /\ \A i \in 1..Len(store) : \A n \in PkColumnNames :
              store[i][n] = last.call.before[i][n]

\* C6 as stated: the create input has one field per column that is no primary
\* key and none for a primary-key column, and the primary key of a created row
\* is the identity the store assigns, never a supplied value.
C6_CreateOmitsPrimaryKey ==
    CreateCalled =>
        /\ DOMAIN create_gql_create_input_object_type_from_sa_class(rev, ent).fields
             = OwnColumnNames
        /\ last.eff.exc = NoExc =>
             \A n \in PkColumnNames :
                store[Len(store)][n] = I(NextId(last.call.before, n))

\* C6 as the code has it: fbsak builds the create input with one field per
\* column that is no primary key and none for a primary-key column, so no
\* primary-key value reaches create; sgs builds one field per column, those of
\* primary-key columns optional, and create applies a supplied primary-key
\* value to the new row.  The store assigns the identity when none is supplied.
C6_CreatePrimaryKey ==
    CreateCalled =>
        LET fields == create_gql_create_input_object_type_from_sa_class(rev, ent).fields
            create_data == last.call.kwargs[ParamName(ent)]
            supplied == {n \in DOMAIN create_data \cap PkColumnNames :
                            create_data[n] # None}
        IN  /\ OwnColumnNames \subseteq DOMAIN fields
            /\ (rev = "fbsak") => (DOMAIN fields = OwnColumnNames /\ supplied = {})
            /\ (rev = "sgs") =>
                 /\ DOMAIN fields = OwnColumnNames \cup PkColumnNames
                 /\ \A n \in PkColumnNames : ~FieldRequired(fields[n])
            /\ last.eff.exc = NoExc =>
                 /\ Len(store) = Len(last.call.before) + 1
                 /\ \A n \in PkColumnNames :
                      store[Len(store)][n] =
                         (IF n \in supplied THEN IntOf(create_data[n])
                          ELSE I(NextId(last.call.before, n)))
C6_Witness ==
    /\ CreateDone
    /\ rev = "sgs"
    /\ ent = User
    /\ "id" \in DOMAIN last.call.kwargs[ParamName(ent)]
    /\ last.call.kwargs[ParamName(ent)]["id"] = S("2")
    /\ store[Len(store)]["id"] = I(2)
    /\ NextId(last.call.before, "id") # 2

(***************************************************************************)
(* Properties of the generated roots and of the registry.                  *)
(***************************************************************************)
ModelSet == SeqToSet(models)
MutationRootBuilt == gpc = "built" /\ flags.mutation
QueryRootBuilt == gpc \in {"mutation", "built"} /\ flags.query
MutationFields(e, kind) ==
    {k \in DOMAIN root_mutation :
        root_mutation[k].entity = e.name /\ root_mutation[k].kind = kind}
QueryFields(e, kind) ==
    {k \in DOMAIN root_query :
        root_query[k].entity = e.name /\ root_query[k].kind = kind}
OnlyPrimaryKeys(e) == \A c \in SeqToSet(e.columns) : c.primary_key

\* C7: the create input field of a column that is no primary key is required
\* exactly when the column is not nullable and has no default; a column with
\* a default is never required; a scalar default is attached as the field's
\* default value, any other default attaches none.
C7_CreateFieldRequired ==
    \A e \in ModelSet :
        ("create_" \o Lower(e.name)) \in DOMAIN root_mutation =>
            \A c \in SeqToSet(e.columns) :
                ~c.primary_key =>
                    LET f == root_mutation["create_" \o Lower(e.name)].input.fields[c.name]
                        required == "required" \in DOMAIN f.args /\ f.args["required"]
                        literal == "default_value" \in DOMAIN f.args
                    IN  /\ required <=> (~c.nullable /\ c.default = NoDefault)
                        /\ (c.default # NoDefault) => ~required
                        /\ (c.default[1] = "scalar") =>
                              (literal /\ f.args["default_value"] = c.default[2])
                        /\ (c.default[1] # "scalar") => ~literal
C7_Witness ==
    /\ MutationRootBuilt
    /\ Tag(FALSE, ScalarDefault(I(0))) \in ModelSet
    /\ "create_tag" \in DOMAIN root_mutation
    /\ root_mutation["create_tag"].input.fields["weight"].args["default_value"] = I(0)

\* C8 as stated: the mutation root has one create, one update and one delete
\* field for a class exactly when the class is no association table, and no
\* mutation field at all for an association table.
C8_NoMutationForAssociation ==
    MutationRootBuilt =>
        \A e \in ModelSet : \A kind \in {"create", "update", "delete"} :
            Cardinality(MutationFields(e, kind)) = (IF OnlyPrimaryKeys(e) THEN 0 ELSE 1)

\* C8 as the code has it: the mutation root has exactly one create field and
\* one delete field for every class, association tables included, and exactly
\* one update field for a class that is no association table; an association
\* table gets no update field.
C8_MutationFields ==
    MutationRootBuilt =>
        \A e \in ModelSet :
            /\ MutationFields(e, "create") = {"create_" \o Lower(e.name)}
            /\ MutationFields(e, "delete") = {"delete_" \o Lower(e.name)}
            /\ MutationFields(e, "update") =
                 (IF OnlyPrimaryKeys(e) THEN {} ELSE {"update_" \o Lower(e.name)})
C8_Witness ==
    /\ MutationRootBuilt
    /\ Link \in ModelSet
    /\ User \in ModelSet
    /\ "create_link" \in DOMAIN root_mutation
    /\ "update_link" \notin DOMAIN root_mutation
    /\ "update_user" \in DOMAIN root_mutation

\* C9: the query root has exactly one list field for every class, association
\* tables included, named by the table name of the class, and exactly one
\* resolver named resolve_<table name>; nothing else is on the query root.
C9_QueryFields ==
    QueryRootBuilt =>
        /\ \A e \in ModelSet :
              /\ QueryFields(e, "List") = {e.tablename}
              /\ QueryFields(e, "resolver") = {"resolve_" \o e.tablename}
        /\ Cardinality(DOMAIN root_query) = 2 * Len(models)
C9_Witness ==
    /\ QueryRootBuilt
    /\ Len(models) = 4
    /\ "links" \in DOMAIN root_query
    /\ "resolve_links" \in DOMAIN root_query

\* C10: the registry holds at most one <Type>FilterOp type per type name: a
\* type of a name is constructed once in the process, on the first request,
\* and every request for the name, from any column of any class in any run,
\* is answered with that one type.
C10_OneFilterOpPerType ==
    /\ \A i, j \in 1..Len(made) : made[i].name = made[j].name => i = j
    /\ \A a, b \in returned : a.name = b.name => a = b
    /\ returned \subseteq SeqToSet(made)
    /\ \A t \in DOMAIN fop_registry :
          /\ fop_registry[t].name = t \o "FilterOp"
          /\ fop_registry[t] \in SeqToSet(made)
    /\ Cardinality(DOMAIN fop_registry) = Len(made)
C10_Witness ==
    /\ runs = 2
    /\ gpc = "built"
    /\ flags.query
    /\ Len(models) = 4
    /\ Len(made) = 3
    /\ made[1].id = 1
    /\ \E t \in returned : t.name = "IntFilterOp" /\ t.id = 1


(***************************************************************************)
(* The registry of field enums.                                            *)
(***************************************************************************)
\* C11: building the field enum of an entity is idempotent: the first call
\* stores the generated enum in the registry under the entity name and every
\* later call returns that instance, so at most one enum is ever generated
\* per entity name.
C11_OneFieldEnumPerEntity ==
    \A n \in DOMAIN enums_made :
        /\ enums_made[n] = 1
        /\ n \in DOMAIN field_enum_registry
        /\ field_enum_registry[n].id = 1


\* A generation run has just started its query stage.
RunStarted == gpc = "query" /\ gi = 1

\* C12: the registry of generated types (field enums and filter-op types) is
\* empty at the start of every generation run: no entry made in one run is
\* visible to a later run.
C12_RegistryFreshEachRun ==
    RunStarted => fop_registry = EmptyDict /\ field_enum_registry = EmptyDict

\* C12, as the code has it: the registries are module globals that no run
\* clears.  Every filter-op type ever constructed in the process is still the
\* one registered under its type name, whatever run constructed it, and the
\* registry of field enums holds no entry at any time.
C12_RegistryKeptAcrossRuns ==
    /\ \A i \in 1..Len(made) :
          /\ made[i].v \in DOMAIN fop_registry
          /\ fop_registry[made[i].v] = made[i]
    /\ field_enum_registry = EmptyDict

\* The second run of the process starts on the filter-op types of the first.
C12_Witness ==
    /\ RunStarted
    /\ runs = 2
    /\ \E t \in DOMAIN fop_registry : fop_registry[t] \in returned


(***************************************************************************)
(* Sessions and failures of the store.                                     *)
(***************************************************************************)
\* No resolver is executing: none was called yet, or the last one has handed
\* its result or its error to the caller.
NoResolverExecuting == pc \in {"idle", "done"}

\* C13: every resolver invocation acquires a session when it starts and has
\* closed it when it returns, on success and on failure: while no resolver is
\* executing, no session is open.
C13_SessionScoped ==
    /\ NoResolverExecuting => sessions = 0
    /\ pc = "done" => Head(last.eff.log) = "acquire"


Mutations == {"create", "update", "delete"}
\* The mutation in flight got as far as its commit.
CommitTried ==
    /\ pc = "done"
    /\ last.call.kind \in Mutations
    /\ "commit" \in SeqToSet(last.eff.log)
\* The engine raised a data-access error in the add and commit, or the delete
\* and commit, of the mutation: it failed the commit for a reason of its own,
\* or the statement broke a constraint of the table.
DataAccessError == CommitTried /\ (last.dbfail \/ last.eff.exc # NoExc)

UpdateCalled == pc = "done" /\ last.call.kind = "update"
\* The row carries, in every primary-key column, the value data names for it.
HasPrimaryKeyOf(row, data) ==
    \A n \in PkColumnNames : n \in DOMAIN data /\ row[n] = IntOf(data[n])
RowsWithPrimaryKeyOf(rows, data) ==
    {i \in 1..Len(rows) : HasPrimaryKeyOf(rows[i], data)}

\* C15: an update whose primary-key value is the primary key of no stored row
\* fails with the store's no-row error before any field is applied: nothing is
\* added or committed and the table is as it was.
C15_UpdateOfAbsentRow ==
    (/\ UpdateCalled
     /\ RowsWithPrimaryKeyOf(last.call.before, last.call.kwargs[ParamName(ent)]) = {})
    => /\ outcome = Raised("NoResultFound")
       /\ last.eff.applied = {}
       /\ "add" \notin SeqToSet(last.eff.log)
       /\ "commit" \notin SeqToSet(last.eff.log)
       /\ store = last.call.before


DeleteCalled == pc = "done" /\ last.call.kind = "delete"
\* The rows of a table that are not rows[i] for an i of gone, in table order.
Without(rows, gone) ==
    LET keep == {i \in 1..Len(rows) : i \notin gone}
        RECURSIVE Take(_)
        Take(i) == IF i > Len(rows) THEN <<>>
                   ELSE (IF i \in keep THEN <<rows[i]>> ELSE <<>>) \o Take(i + 1)
    IN  Take(1)

UpdateNames(id, data) ==
    \A n \in DOMAIN id : n \in DOMAIN data /\ IntOf(data[n]) = IntOf(id[n])

\* C17: in any sequence of create, update and delete calls on an entity, once
\* a delete has returned deleted_count 1 for an identifier, every later update
\* that names the identifier fails with the no-row error and leaves the table
\* as it was, until a create makes a row with that identifier again.
C17_NoUpdateAfterDelete ==
    UpdateCalled =>
        \A id \in deleted_ids :
            UpdateNames(id, last.call.kwargs[ParamName(ent)]) =>
                /\ outcome = Raised("NoResultFound")
                /\ store = last.call.before


(***************************************************************************)
(* The filters and the order_by of the list resolver.                      *)
(***************************************************************************)
ListCalled == pc = "done" /\ last.call.kind = "read"
\* The filters of the list request in flight, and its (name, clause) items.
ListFilters ==
    IF "filters" \in DOMAIN last.call.kwargs THEN last.call.kwargs["filters"] ELSE <<>>
ListItems ==
    {ListFilters[i][j] : <<i, j>> \in
        {p \in (1..Len(ListFilters)) \X (1..2) : p[2] <= Len(ListFilters[p[1]])}}
\* The request failed and handed no rows to the caller.
ListFailed ==
    /\ outcome.how = "raise"
    /\ last.eff.ret = None
    /\ ~last.eff.query.executed

\* C18: a list request with a filter clause whose op is no member of
\* FilterOperation fails, with the error of the enum lookup when the clause is
\* reached, and returns no rows: the clause is never skipped.
C18_UnknownFilterOperation ==
    (ListCalled /\ \E it \in ListItems : it[2].op \notin FilterOperation) =>
        /\ ListFailed
        /\ \A i \in 1..Len(last.eff.query.filters) :
              last.eff.query.filters[i][2] \in FilterOperation
        /\ (/\ Len(ListFilters) = 1
            /\ Len(ListFilters[1]) = 1
            /\ HasColumn(ent, ListFilters[1][1][1])) => outcome = Raised("ValueError")
\* The unknown op comes second, after a clause that was applied.
C18_Witness ==
    /\ ListCalled
    /\ Len(ListFilters) = 2
    /\ ListFilters[2][1][2].op = "REGEX"
    /\ Len(last.eff.query.filters) = 1
    /\ outcome = Raised("ValueError")
    /\ last.call.before # <<>>


HasOrderBy == "order_by" \in DOMAIN last.call.kwargs
\* The list request names, as the key of a filter clause or as the f of its
\* order_by, something that is no column of the entity.
NamesUnknownColumn ==
    \/ \E it \in ListItems : ~HasColumn(ent, it[1])
    \/ HasOrderBy /\ ~HasColumn(ent, last.call.kwargs["order_by"].f)

\* C19: a list request that names a column the entity does not have, as the
\* key of a filter clause or as the f of order_by, fails on the lookup of the
\* column, before the query is executed, and returns no rows.
C19_UnknownColumn ==
    (ListCalled /\ NamesUnknownColumn) =>
        /\ ListFailed
        /\ store = last.call.before
        /\ \A i \in 1..Len(last.eff.query.filters) :
              HasColumn(ent, last.eff.query.filters[i][1])
        /\ (\A it \in ListItems : it[2].op = "EQ") => outcome = Raised("KeyError")
\* An order_by on an unknown column, after a filter that was applied.
C19_Witness ==
    /\ ListCalled
    /\ HasOrderBy
    /\ last.call.kwargs["order_by"].f = NoColumn
    /\ Len(last.eff.query.filters) = 1
    /\ outcome = Raised("KeyError")
    /\ last.call.before # <<>>


\* The list request carries one filter element with one clause, on a column
\* of the entity, no order_by, and a first page that holds the whole table.
SingleClause ==
    /\ ListCalled
    /\ Len(ListFilters) = 1
    /\ Len(ListFilters[1]) = 1
    /\ HasColumn(ent, ListFilters[1][1][1])
    /\ ~HasOrderBy
    /\ last.call.kwargs["page"] = 1
    /\ last.call.kwargs["perpage"] >= Len(last.call.before)
\* What the clause selects, by its meaning: EQ the rows whose column equals v,
\* BETWEEN the rows whose column lies in vl[0]..vl[1], bounds included,
\* ISNULL and ISNOTNULL the rows whose column is null, or is not, whatever v.
Selects(clause, x) ==
    CASE clause.op = "EQ"        -> x = clause.v
      [] clause.op = "BETWEEN"   -> /\ x # None
                                    /\ clause.vl[1][2] <= x[2]
                                    /\ x[2] <= clause.vl[2][2]
      [] clause.op = "ISNULL"    -> x = None
      [] clause.op = "ISNOTNULL" -> x # None
      [] OTHER                   -> TRUE

\* C20: a list request with the single filter {op: EQ, v: x} returns exactly
\* the rows whose column equals x; with {op: BETWEEN, vl: [a, b]} the rows
\* whose column is between a and b, both included; with ISNULL or ISNOTNULL
\* the rows whose column is null, or is not null, whatever v holds.
C20_FilterSemantics ==
    (/\ SingleClause
     /\ ListFilters[1][1][2].op \in {"EQ", "BETWEEN", "ISNULL", "ISNOTNULL"}) =>
        LET column == ListFilters[1][1][1]
            clause == ListFilters[1][1][2]
            before == last.call.before
        IN  outcome = Returned(L(Without(before,
                         {i \in 1..Len(before) : ~Selects(clause, before[i][column])})))


\* The operations whose branch reads the operand list vl.
ListOperations == {"IN", "NOTIN", "BETWEEN"}
\* The filter-clause invariant: IN, NOTIN and BETWEEN carry a vl, and the vl
\* of BETWEEN has two elements.
WellFormed(clause) ==
    clause.op \in ListOperations =>
        /\ "vl" \in DOMAIN clause
        /\ clause.op = "BETWEEN" => Len(clause.vl) = 2

\* C21: every filter clause the list resolver applies satisfies the
\* filter-clause invariant: an IN, NOTIN or BETWEEN clause without a vl, and a
\* BETWEEN clause whose vl has fewer or more than two elements, is never
\* applied as a filter.
C21_ClauseInvariant ==
    ListCalled =>
        \A i \in 1..Len(last.eff.query.filters) :
            \E it \in ListItems :
                /\ it[1] = last.eff.query.filters[i][1]
                /\ it[2].op = last.eff.query.filters[i][2]
                /\ WellFormed(it[2])
\* A BETWEEN clause with three operands was handed in, and nothing was applied.
C21_Witness ==
    /\ ListCalled
    /\ \E it \in ListItems :
          it[2].op = "BETWEEN" /\ "vl" \in DOMAIN it[2] /\ Len(it[2].vl) = 3
    /\ last.eff.query.filters = <<>>
    /\ ListFailed
    /\ rev = "sgs"
    /\ last.call.before # <<>>


(***************************************************************************)
(* Concurrent invocations.  The transport runs up to MaxProcs create       *)
(* resolvers at once (threads); an invocation takes its session, adds its  *)
(* new instance to it and commits, and the others can run between any two  *)
(* of these statements.  A session holds the instances added to it until a *)
(* commit flushes them or a rollback expunges them.                        *)
(***************************************************************************)
\* A session function that may hand out a session it has handed out before.
SessionForShared(r, n) == 1..(n + 1)
\* The sessions the acquisition can yield when n sessions exist.  sgs builds
\* an engine and a scoped_session of its own in every call; fbsak calls the
\* get_session_func() it was given, which returns a session of the caller's
\* choice, new or not.
SessionFor(r, n) == IF r = "sgs" THEN {n + 1} ELSE 1..(n + 1)

\* The create payloads that leave the identifier to the store.
ConcKwargs ==
    {kw \in KwargsTable["create"][rev][User] :
        "id" \notin DOMAIN kw[ParamName(User)] \/ kw[ParamName(User)]["id"] = None}

\* The table after the flush of the pending instances, oldest first.
RECURSIVE FlushAll(_, _, _)
FlushAll(e, rows, pending) ==
    IF pending = <<>> THEN rows
    ELSE FlushAll(e, Append(rows, NewRow(e, rows, Head(pending).attrs)), Tail(pending))
RECURSIVE FlushFails(_, _, _)
FlushFails(e, rows, pending) ==
    IF pending = <<>> THEN FALSE
    ELSE \/ InsertFails(e, rows, Head(pending).attrs)
         \/ FlushFails(e, Append(rows, NewRow(e, rows, Head(pending).attrs)),
                       Tail(pending))
Owners(pending) == [i \in 1..Len(pending) |-> pending[i].owner]

\* with scoped_db_session_from_sa_connection_string(...) as s: /
\* s = get_session_func()
ConcAcquire(p) ==
    /\ cpc[p] = "start"
    /\ \E s \in SessionFor(rev, handed) :
         /\ s \in Procs
         /\ csession' = [csession EXCEPT ![p] = s]
         /\ handed' = Max(handed, s)
    /\ cpc' = [cpc EXCEPT ![p] = "acquired"]
    /\ UNCHANGED <<rtvars, genvars, session_state, ceffect, coutcome>>

\* new_obj = sa_model_class(); setattr(new_obj, k, v) ...; s.add(new_obj)
ConcAdd(p) ==
    /\ cpc[p] = "acquired"
    /\ \E kw \in ConcKwargs :
         session_state' = [session_state EXCEPT ![csession[p]].pending =
                              Append(@, [owner |-> p, attrs |-> kw[ParamName(User)]])]
    /\ cpc' = [cpc EXCEPT ![p] = "added"]
    /\ UNCHANGED <<rtvars, genvars, csession, handed, ceffect, coutcome>>

\* s.commit(), and the handler of the revision when it raises.
ConcCommit(p) ==
    /\ cpc[p] = "added"
    /\ cpc' = [cpc EXCEPT ![p] = "done"]
    /\ LET s == csession[p]
           pending == session_state[s].pending
       IN  \E dbfail \in BOOLEAN :
             IF session_state[s].inactive
             THEN /\ coutcome' = [coutcome EXCEPT ![p] = "InvalidRequestError"]
                  /\ UNCHANGED <<store, session_state, ceffect>>
             ELSE IF dbfail \/ FlushFails(ent, store, pending)
             THEN /\ coutcome' = [coutcome EXCEPT ![p] = FailureExc(rev)]
                  /\ store' = store
                  /\ IF "rollback" \in SeqToSet(FailureLog(rev))
                     THEN /\ session_state' = [session_state EXCEPT ![s] = CleanSession]
                          /\ ceffect' = [ceffect EXCEPT ![p].dropped = Owners(pending)]
                     ELSE /\ session_state' = [session_state EXCEPT ![s].inactive = TRUE]
                          /\ ceffect' = ceffect
             ELSE /\ Len(store) + Len(pending) <= MaxRows
                  /\ store' = FlushAll(ent, store, pending)
                  /\ session_state' = [session_state EXCEPT ![s] = CleanSession]
                  /\ ceffect' = [ceffect EXCEPT ![p].wrote = Owners(pending)]
                  /\ coutcome' = [coutcome EXCEPT ![p] = "return"]
    /\ UNCHANGED <<rev, ent, sessions, ncalls, op_hooks, pc, last, events, outcome,
                   deleted_ids, genvars, csession, handed>>

InitConc == InitRuntime /\ ent = User /\ store = <<>> /\ op_hooks = {}
NextConc == \E p \in Procs : ConcAcquire(p) \/ ConcAdd(p) \/ ConcCommit(p)
SpecConc == InitConc /\ [][NextConc]_vars

InFlight(p) == cpc[p] \in {"acquired", "added"}
\* No two invocations in flight hold the same session, and the commit or the
\* rollback of an invocation that is over wrote or discarded its own instance
\* and no other.
OwnSession ==
    /\ \A p, q \in Procs :
          (p # q /\ InFlight(p) /\ InFlight(q)) => csession[p] # csession[q]
    /\ \A p \in Procs :
          cpc[p] = "done" =>
             \/ coutcome[p] = "return" /\ ceffect[p] = [wrote |-> <<p>>, dropped |-> <<>>]
             \/ /\ coutcome[p] = FailureExc(rev)
                /\ ceffect[p].wrote = <<>>
                /\ ceffect[p].dropped \in {<<>>, <<p>>}

\* C22: when resolver invocations run concurrently, in any interleaving, each
\* one acquires a session of its own, no session is used by two invocations,
\* and what the store operations of an invocation do is what they would do
\* with that session alone.
C22_OwnSession == OwnSession

\* C22, as the code has it: that holds in the sqlalchemy_graphql_schemagen
\* revision, where every call builds its own engine and scoped session.  The
\* fbsak revision uses whatever session the get_session_func of the caller
\* returns, and shares it when that function does.
C22_OwnSessionWhenScoped ==
    /\ rev = "sgs" => OwnSession
    /\ \A p \in Procs : csession[p] \in 0..handed
\* The invocations ran at once, each on a session of its own, and each
\* commit wrote the one row of its invocation.
C22_Witness ==
    /\ rev = "sgs"
    /\ \A p \in Procs : cpc[p] = "done" /\ coutcome[p] = "return"
    /\ Len(store) = MaxProcs
    /\ csession[1] # csession[2]


(***************************************************************************)
(* What create and update write.                                           *)
(***************************************************************************)
CreateDoneOk == CreateCalled /\ last.eff.exc = NoExc
\* The value the payload supplies for a column: present and not null.
Supplied(data, n) == n \in DOMAIN data /\ data[n] # None

StoreStatements == {"query", "add", "delete", "commit"}
\* The invocation failed after a statement of it reached the store.
FailedAfterTouch ==
    /\ pc = "done"
    /\ outcome.how = "raise"
    /\ \E i \in 1..Len(last.eff.log) : last.eff.log[i] \in StoreStatements

\* C24: every failure of a resolver that has touched the store is rolled back
\* before the error reaches the caller, whatever was raised while the session
\* was in use (the no-row failure of update's lookup as much as an error of
\* the commit); the error itself always reaches the caller.
C24_RollbackOnEveryFailure ==
    FailedAfterTouch =>
        \E i \in 1..Len(last.eff.log) :
            /\ last.eff.log[i] = "rollback"
            /\ \A j \in 1..Len(last.eff.log) :
                  last.eff.log[j] \in StoreStatements => j < i


(***************************************************************************)
(* The result of the list resolver.                                        *)
(***************************************************************************)
\* The row passes every clause of the request.
PassesAll(row) ==
    \A it \in ListItems : ClauseHolds(it[2].op, row[it[1]], it[2])
\* The rows of the table that pass every clause, in table order.
Filtered ==
    Without(last.call.before,
            {i \in 1..Len(last.call.before) : ~PassesAll(last.call.before[i])})
\* r comes before t in the order the request asks for.
Before(r, t) ==
    LET ob == last.call.kwargs["order_by"]
    IN  IF ob.o = "ASC" THEN SortKey(r[ob.f]) < SortKey(t[ob.f])
        ELSE SortKey(r[ob.f]) > SortKey(t[ob.f])

Located ==
    LET update_data == last.call.kwargs[ParamName(ent)]
        pk_name == ent.columns[1].name
    IN  {i \in 1..Len(last.call.before) :
            last.call.before[i][pk_name] = IntOf(update_data[pk_name])}

\* C26: update has partial-update semantics: after a successful update every
\* column that is no primary key and is present in the payload holds the
\* supplied value, a supplied null included, every column absent from the
\* payload keeps its value, and every row but the located one is unchanged.
C26_PartialUpdate ==
    UpdateDone =>
        LET update_data == last.call.kwargs[ParamName(ent)]
            before == last.call.before
        IN  /\ Len(store) = Len(before)
            /\ Cardinality(Located) = 1
            /\ \A i \in 1..Len(store) :
                  IF i \in Located
                  THEN /\ \A n \in OwnColumnNames \cap DOMAIN update_data :
                             store[i][n] = Coerce(ColumnByName(ent, n), update_data[n])
                       /\ \A n \in SeqToSet(ColumnNames(ent)) \ DOMAIN update_data :
                             store[i][n] = before[i][n]
                       /\ outcome = Returned(Obj(store[i]))
                  ELSE store[i] = before[i]
\* An update that sets age to null, leaves name out, and has a second row to
\* leave alone.
C26_Witness ==
    /\ UpdateDone
    /\ ent = User
    /\ Len(store) = 2
    /\ 1 \in Located
    /\ DOMAIN last.call.kwargs[ParamName(ent)] = {"id", "age"}
    /\ last.call.kwargs[ParamName(ent)]["age"] = None
    /\ last.call.before[1]["age"] # None
    /\ store[1]["age"] = None
    /\ store[1]["name"] = last.call.before[1]["name"]


\* The same clauses, one list element for each (name, clause) item.
RECURSIVE SplitElement(_)
SplitElement(items) ==
    IF items = <<>> THEN <<>>
    ELSE << <<Head(items)>> >> \o SplitElement(Tail(items))
RECURSIVE SplitElements(_)
SplitElements(filter_obj_list) ==
    IF filter_obj_list = <<>> THEN <<>>
    ELSE SplitElement(Head(filter_obj_list)) \o SplitElements(Tail(filter_obj_list))
\* The list request in flight has an element that names two columns or more.
NamesSeveralColumns == \E i \in 1..Len(ListFilters) : Len(ListFilters[i]) >= 2

\* C27: for every element of the filters list that names k >= 1 columns the
\* list resolver applies all k clauses, each to the column it is keyed by; an
\* element naming two or more columns is handled the same as the same clauses
\* split over separate list elements.
C27_ElementAsSplit ==
    (ListCalled /\ ~last.dbfail) =>
        LET split == [last.call.kwargs EXCEPT !["filters"] = SplitElements(@)]
            alone == IF "filters" \in DOMAIN last.call.kwargs
                     THEN resolve_func(rev, ent, last.call.before, split)
                     ELSE last.eff
        IN  /\ last.eff.ret = alone.ret
            /\ last.eff.exc = alone.exc
            /\ last.eff.query.filters = alone.query.filters
\* The elements that name one column each are handled as the claim says: the
\* divergence is confined to elements naming several.
C27_SingleNameElements ==
    (ListCalled /\ ~NamesSeveralColumns) => SplitElements(ListFilters) = ListFilters
\* An element naming two columns was refused after its first clause.
C27_TwoNamesRefused ==
    /\ ListCalled
    /\ NamesSeveralColumns
    /\ ListFailed
    /\ Len(last.eff.query.filters) = 1


(***************************************************************************)
(* A schema generated with hook classes for READ and DELETE and none for   *)
(* CREATE and UPDATE: the list and delete resolvers are the decorated      *)
(* ones, the create and update resolvers are the bodies themselves.        *)
(***************************************************************************)
HooksGiven == {"read", "delete"}
InitWired ==
    /\ InitRuntime
    /\ store = SubSeq(SampleRows(ent), 1, 1)
    /\ op_hooks = HooksGiven
NextWired ==
    Create \/ Update \/ HookCall \/ HookPre \/ HookBody \/ HookPost \/ Return
SpecWired == InitWired /\ [][NextWired]_vars

\* C28: a hook registered for one operation kind wraps the resolvers of
\* exactly that kind, for every entity: it runs on every invocation of that
\* kind and on no invocation of another kind; a kind with no registered hook
\* has its resolver installed unwrapped, behaving as the body does.
C28_HookWrapsItsKind ==
    /\ pc \in {"pre", "body", "post"} => last.call.kind \in op_hooks
    /\ events # <<>> => last.call.kind \in op_hooks
    /\ (pc = "done" /\ last.call.kind \in op_hooks) =>
          /\ events # <<>>
          /\ events[1].ev = "pre"
    /\ (pc = "done" /\ last.call.kind \notin op_hooks) =>
          /\ events = <<>>
          /\ last.eff = ResolverBody(last.call.kind, rev, ent, last.call.before,
                                     last.call.kwargs, last.dbfail)
          /\ store = last.eff.store
          /\ outcome = OutcomeOf(last.eff)
\* A delete ran under its hook in a schema whose update resolver has none.
C28_Witness ==
    /\ pc = "done"
    /\ "update" \notin op_hooks
    /\ last.call.kind = "delete"
    /\ Len(events) = 3
    /\ outcome.how = "return"
\* An update in the same schema ran the body alone.
C28_UnwrappedUpdate ==
    /\ pc = "done"
    /\ "delete" \in op_hooks
    /\ last.call.kind = "update"
    /\ events = <<>>
    /\ outcome.how = "return"


\* The pre hook, or the post hook, of the invocation in flight raised.
PreRaised ==
    events # <<>> /\ events[1].ev = "pre" /\ events[1].ret[1] = "exc"
PostRaised ==
    Len(events) = 3 /\ events[3].ev = "post" /\ events[3].ret[1] = "exc"

\* C29: a failure raised inside a hook reaches the caller unchanged and
\* nothing is retried: when pre raises, the body and post are not run and
\* the table is as before; when post raises, the caller gets that failure,
\* not the resolver's result nor a replacement.
C29_HookFailurePropagates ==
    /\ Len(events) <= 3
    /\ PreRaised =>
          /\ Len(events) = 1
          /\ pc = "done"
          /\ last.eff = NoEffect
          /\ store = last.call.before
          /\ sessions = last.call.open
          /\ outcome = Raised(events[1].ret[2])
    /\ PostRaised =>
          /\ pc = "done"
          /\ events[2].ev = "body"
          /\ outcome = Raised(events[3].ret[2])
\* The post hook of a create raised after the body had stored the new row.
C29_Witness ==
    /\ PostRaised
    /\ last.call.kind = "create"
    /\ Len(store) = Len(last.call.before) + 1
    /\ outcome = Raised("PermissionError")
\* The pre hook of an update raised.
C29_PreRaisedUpdate ==
    /\ PreRaised
    /\ last.call.kind = "update"
    /\ last.call.before # <<>>
    /\ outcome = Raised("PermissionError")


(***************************************************************************)
(* An application: get_graphene_schema has been entered once for the       *)
(* classes of its base, with queries and mutations asked for; the schema   *)
(* is assembled class by class, and then its resolvers serve requests.     *)
(***************************************************************************)
ServedModels == <<User, Pair>>
InitServe ==
    /\ rev \in Revisions
    /\ ent \in RuntimeEntities
    /\ store = SubSeq(SampleRows(ent), 1, 1)
    /\ sessions = 0
    /\ ncalls = 0
    /\ op_hooks = {}
    /\ pc = "idle"
    /\ last = [call |-> NoCall, eff |-> NoEffect, dbfail |-> FALSE]
    /\ events = <<>>
    /\ outcome = NoOutcome
    /\ deleted_ids = {}
    /\ ConcIdle
    /\ models = ServedModels
    /\ flags = [query |-> TRUE, mutation |-> TRUE]
    /\ gpc = NextStage("start", flags)
    /\ gi = 1
    /\ root_query = EmptyDict
    /\ root_mutation = EmptyDict
    /\ fop_registry = EmptyDict
    /\ made = <<>>
    /\ returned = {}
    /\ field_enum_registry = EmptyDict
    /\ enums_made = EmptyDict
    /\ runs = 1
\* The schema is assembled and has the field the request names.
Serves(field, dict) == gpc = "built" /\ field \in DOMAIN dict
ServeList   == Serves(sa_table_name(ent), root_query) /\ List
ServeCreate == Serves("create_" \o Lower(ent.name), root_mutation) /\ Create
ServeUpdate == Serves("update_" \o Lower(ent.name), root_mutation) /\ Update
ServeDelete == Serves("delete_" \o Lower(ent.name), root_mutation) /\ Delete
NextServe ==
    \/ GenerateQuerySaClass \/ QuerySchemaBuilt
    \/ GenerateMutationSaClass \/ MutationSchemaBuilt
    \/ ServeList \/ ServeCreate \/ ServeUpdate \/ ServeDelete \/ Return
SpecServe == InitServe /\ [][NextServe]_vars

\* A step of a resolver invocation: a call, or the return to the caller.
ResolverStep == pc' # pc \/ ncalls' # ncalls \/ store' # store

\* C30: the registry of generated types is written only during schema
\* generation: no step of a list, create, update or delete resolver, in any
\* order, adds, replaces or removes an entry of it, so from the end of
\* generation onward the registry is unchanged.
C30_RegistryReadOnly ==
    [][(ResolverStep \/ gpc = "built") =>
          /\ fop_registry' = fop_registry
          /\ field_enum_registry' = field_enum_registry]_vars
\* Requests have been served, a list request last, under a registry that
\* generation has filled.
C30_Witness ==
    /\ gpc = "built"
    /\ DOMAIN fop_registry # {}
    /\ ncalls >= 2
    /\ store # SubSeq(SampleRows(ent), 1, 1)
    /\ pc = "done"
    /\ last.call.kind = "read"
    /\ "filters" \in DOMAIN last.call.kwargs
    /\ outcome.how = "return"

====
